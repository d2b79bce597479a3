--------------------------- MODULE FinalityProofs ---------------------------
(***************************************************************************)
(* The draw, the roster, certificates and the leak, for every committee,   *)
(* every seed and any number of sides.  The draw and the shuffle are folds *)
(* of the library: each is shown to be the value of a function on the      *)
(* subsets of its rounds, and what one round keeps, the fold keeps.        *)
(* Committees so drawn give every set of seats a weight (Heft) that adds   *)
(* up, and the invariant ties each side's last block to these weights.     *)
(***************************************************************************)
EXTENDS Finality, SumTheorems

----------------------------------------------------------------------------
(* Ascending order. *)

\* How many elements of S lie below n.
Rank(S, n) == Cardinality({m \in S : m < n})

\* Every rank but those too high is taken.
LEMMA RanksTaken ==
    ASSUME NEW S, IsFiniteSet(S), S \subseteq Nat
    PROVE  \A k \in 0..(Cardinality(S) - 1) : \E n \in S : Rank(S, n) = k
<1> DEFINE G == {T \in SUBSET S :
                   \A k \in 0..(Cardinality(T) - 1) : \E n \in T : Rank(T, n) = k}
<1>1. {} \in G
  BY FS_EmptySet
<1>2. ASSUME NEW T \in SUBSET S, T # {}, \A x \in T : T \ {x} \in G
      PROVE  T \in G
  <2> DEFINE top == Max(T)
             R == T \ {top}
  <2>0. T \subseteq Nat /\ \A n \in T : n \in Int
    OBVIOUS
  <2>1. IsFiniteSet(T) /\ T \subseteq Int
    BY <2>0, FS_Subset
  <2>2. top \in T /\ \A n \in T : n <= top
    BY <2>1, <1>2, MaxIsLargest
  <2> HIDE DEF top
  <2>3. IsFiniteSet(R) /\ Cardinality(R) = Cardinality(T) - 1
    BY <2>1, <2>2, FS_RemoveElement
  <2>4. Cardinality(T) \in Nat
    BY <2>1, FS_CardinalityType
  <2>5. Rank(T, top) = Cardinality(T) - 1
    <3>1. \A m \in T : m < top <=> m # top
      BY <2>0, <2>2
    <3>2. {m \in T : m < top} = R
      BY <3>1
    <3> QED
      BY <3>2, <2>3 DEF Rank
  <2> SUFFICES ASSUME NEW k \in 0..(Cardinality(T) - 1)
               PROVE  \E n \in T : Rank(T, n) = k
    OBVIOUS
  <2>6. CASE k = Cardinality(T) - 1
    BY <2>2, <2>5, <2>6
  <2>7. CASE k # Cardinality(T) - 1
    <3>1. k \in 0..(Cardinality(R) - 1)
      BY <2>3, <2>4, <2>7
    <3>2. R \in G
      BY <1>2, <2>2
    <3>3. PICK n \in R : Rank(R, n) = k
      BY <3>1, <3>2
    <3>4. {m \in T : m < n} = {m \in R : m < n}
      BY <2>1, <2>2, <3>3
    <3> QED
      BY <3>3, <3>4 DEF Rank
  <2> QED
    BY <2>6, <2>7
<1> HIDE DEF G
<1>3. S \in G
  BY <1>1, <1>2, SetInduction
<1> QED
  BY <1>3 DEF G

\* InOrder lists every element of its set once.
LEMMA InOrderLists ==
    ASSUME NEW S, IsFiniteSet(S), S \subseteq Nat
    PROVE  LET n == Cardinality(S) IN
           /\ n \in Nat /\ InOrder(S) \in [1..n -> S] /\ Len(InOrder(S)) = n
           /\ \A i, j \in 1..n : InOrder(S)[i] = InOrder(S)[j] => i = j
           /\ {InOrder(S)[i] : i \in 1..n} = S
<1> DEFINE n == Cardinality(S)
           f == InOrder(S)
<1>1. n \in Nat
  BY FS_CardinalityType
<1>2. ASSUME NEW i \in 1..n
      PROVE  f[i] \in S /\ Rank(S, f[i]) = i - 1
  <2>1. i - 1 \in 0..(n - 1)
    BY <1>1
  <2>2. \E m \in S : Rank(S, m) = i - 1
    BY <2>1, RanksTaken
  <2>3. f[i] = CHOOSE m \in S : Rank(S, m) = i - 1
    BY DEF InOrder, Rank
  <2> QED
    BY <2>2, <2>3
<1>3. f \in [1..n -> S]
  <2>1. \A i \in 1..n : f[i] \in S
    BY <1>2
  <2> QED
    BY <2>1 DEF InOrder
<1>4. \A i, j \in 1..n : f[i] = f[j] => i = j
  BY <1>1, <1>2
<1>5. {f[i] : i \in 1..n} = S
  <2> SUFFICES ASSUME NEW m \in S PROVE \E i \in 1..n : f[i] = m
    BY <1>2
  <2>1. /\ IsFiniteSet({k \in S : k < m})
        /\ Rank(S, m) \in Nat /\ Rank(S, m) < n
    <3>1. {k \in S : k < m} \in SUBSET (S \ {m})
      OBVIOUS
    <3>2. IsFiniteSet(S \ {m}) /\ Cardinality(S \ {m}) = n - 1
      BY FS_RemoveElement
    <3>3. /\ IsFiniteSet({k \in S : k < m})
          /\ Cardinality({k \in S : k < m}) <= n - 1
      BY <3>1, <3>2, FS_Subset
    <3> QED
      BY <3>3, <1>1, FS_CardinalityType DEF Rank
  <2> DEFINE i == Rank(S, m) + 1
  <2>2. i \in 1..n /\ Rank(S, f[i]) = Rank(S, m)
    BY <2>1, <1>1, <1>2
  <2>3. f[i] \in S
    BY <2>2, <1>2
  <2>4. \A a, b \in S : a < b => Rank(S, a) # Rank(S, b)
    <3> SUFFICES ASSUME NEW a \in S, NEW b \in S, a < b
                 PROVE  Rank(S, a) # Rank(S, b)
      OBVIOUS
    <3> DEFINE A == {k \in S : k < a}
               B == {k \in S : k < b}
    <3>0. a \in Nat /\ b \in Nat /\ \A k \in S : k \in Nat
      OBVIOUS
    <3>1. A \in SUBSET B /\ a \in B /\ a \notin A
      <4>1. \A k \in S : k < a => k < b
        BY <3>0
      <4>2. ~(a < a)
        BY <3>0
      <4> QED
        BY <4>1, <4>2
    <3>2. IsFiniteSet(B)
      BY FS_Subset
    <3>3. Cardinality(A) # Cardinality(B)
      <4> HIDE DEF A, B
      <4> QED
        BY <3>1, <3>2, FS_Subset
    <3> QED
      BY <3>3 DEF Rank
  <2> HIDE DEF i, f
  <2>5. f[i] \in Nat /\ m \in Nat
    BY <2>3
  <2>6. ~(f[i] < m) /\ ~(m < f[i])
    BY <2>2, <2>3, <2>4
  <2>7. f[i] = m
    BY <2>5, <2>6
  <2> QED
    BY <2>2, <2>7
<1>6. Len(f) = n
  <2>1. DOMAIN f = 1..n
    BY <1>3
  <2> HIDE DEF f
  <2> QED
    BY <1>1, <1>3
<1> QED
  BY <1>1, <1>3, <1>4, <1>5, <1>6

----------------------------------------------------------------------------
(* The draw. *)

\* Weights that the leak scales without clamping them.
Scalable == {w \in Nat \ {0} : w <= MaxWeight /\ w * LeakPeriod <= MaxWeight}

\* A validator set as the chain keeps it.
Entered(set) ==
    /\ DOMAIN set = Accounts
    /\ \A v \in Accounts : IsKnown(set, v) =>
          set[v].bond \in Affordable /\ set[v].multiplier \in MultiplierOne..MultiplierMax

\* An eligible validator's weight is such a weight.
LEMMA EligibleWeight ==
    ASSUME NEW set, Entered(set), NEW v \in Accounts, IsEligible(set, v)
    PROVE  ValidatorWeight(set, v) \in Scalable
<1> DEFINE b == set[v].bond
           m == set[v].multiplier
           p == AtMost(b * m, MaxWeight)
           w == p \div MultiplierOne
<1>1. /\ b \in Nat /\ b * MultiplierMax * LeakPeriod <= MaxWeight
      /\ m \in Nat /\ m <= MultiplierMax
  BY CommitteeAssumption DEF Entered, IsEligible, Affordable
<1>2. w # 0
  BY DEF IsEligible, ValidatorWeight, WeightOf
<1>3. /\ MultiplierOne \in Nat \ {0} /\ MultiplierMax \in Nat
      /\ MaxWeight \in Nat /\ LeakPeriod \in Nat \ {0}
  BY CommitteeAssumption, LeakAssumption
<1>4. w = ValidatorWeight(set, v)
  BY DEF ValidatorWeight, WeightOf
<1> HIDE DEF b, m
<1>5. b * m \in Nat /\ b * m <= b * MultiplierMax
  BY <1>1, <1>3
<1>6. p \in Nat /\ p <= MaxWeight /\ p <= b * m
  BY <1>5, <1>3 DEF AtMost
<1> HIDE DEF p
<1>7. w \in Nat /\ w <= p
  BY <1>6, <1>3, Quotient
<1> HIDE DEF w
<1>8. w <= b * MultiplierMax /\ b * MultiplierMax \in Nat
  BY <1>1, <1>3, <1>5, <1>6, <1>7
<1>9. w * LeakPeriod <= b * MultiplierMax * LeakPeriod
  <2> DEFINE c == b * MultiplierMax
  <2> HIDE DEF c
  <2>1. w * LeakPeriod <= c * LeakPeriod
    BY <1>3, <1>7, <1>8 DEF c
  <2> QED
    BY <2>1 DEF c
<1>10. w * LeakPeriod \in Nat /\ b * MultiplierMax * LeakPeriod \in Nat
  BY <1>3, <1>7, <1>8
<1>11. w * LeakPeriod <= MaxWeight
  BY <1>1, <1>3, <1>9, <1>10
<1> QED
  BY <1>2, <1>3, <1>4, <1>6, <1>7, <1>11 DEF Scalable

\* The candidates of a draw, each as the seat it would take.
Candidates(set) ==
    {[account |-> v, weight |-> ValidatorWeight(set, v)] :
        v \in {u \in Accounts : IsEligible(set, u)}}

\* What all candidates weigh.
Standing(set) ==
    SumFunctionOnSet([v \in Accounts |-> IF IsEligible(set, v) THEN ValidatorWeight(set, v) ELSE 0],
                     Accounts)

\* Where a draw may stand: every candidate is in the list, in a seat or passed
\* over, once; a set too heavy to sum seats nobody.
Drawing(set) ==
    {d \in [candidates : Seq(Candidates(set)), remaining : Nat, members : Seq(Candidates(set))] :
        /\ \A i, j \in 1..Len(d.candidates) : d.candidates[i] = d.candidates[j] => i = j
        /\ \A i, j \in 1..Len(d.members) : d.members[i] = d.members[j] => i = j
        /\ \A i \in 1..Len(d.candidates), j \in 1..Len(d.members) :
              d.candidates[i] # d.members[j]
        /\ Standing(set) > MaxWeight => d.remaining = 0 /\ d.members = <<>>}

\* The picked candidate is one of the list, whatever the seed says.
LEMMA PickIsInList ==
    ASSUME NEW C, NEW candidates \in Seq(C), candidates # <<>>, NEW point
    PROVE  PickByCumulativeWeight(candidates, point) \in 1..Len(candidates)
<1> DEFINE n == Len(candidates)
           Cumulative(i) == SumFunction([j \in 1..i |-> candidates[j].weight])
           above == {i \in 1..n : Cumulative(i) > point}
<1>1. n \in Nat \ {0}
  OBVIOUS
<1>2. PickByCumulativeWeight(candidates, point) = IF above = {} THEN n ELSE Min(above)
  BY DEF PickByCumulativeWeight
<1>3. above \subseteq 1..n
  OBVIOUS
<1> HIDE DEF above, n
<1>4. IsFiniteSet(above) /\ above \subseteq Int
  <2>1. IsFiniteSet(1..n)
    BY <1>1, FS_Interval
  <2>2. 1..n \subseteq Int
    BY <1>1
  <2>3. IsFiniteSet(above)
    BY <1>3, <2>1, FS_Subset
  <2> QED
    BY <1>3, <2>2, <2>3
<1>5. above # {} => Min(above) \in 1..n
  BY <1>3, <1>4, MinIsSmallest
<1> QED
  BY <1>1, <1>2, <1>5 DEF n

\* Removing an item closes the gap.
LEMMA RemoveAtIs ==
    ASSUME NEW C, NEW s \in Seq(C), NEW i \in 1..Len(s)
    PROVE  /\ RemoveAt(s, i) \in Seq(C)
           /\ Len(RemoveAt(s, i)) = Len(s) - 1
           /\ \A j \in 1..(Len(s) - 1) :
                 RemoveAt(s, i)[j] = IF j < i THEN s[j] ELSE s[j + 1]
<1> DEFINE a == SubSeq(s, 1, i - 1)
           b == SubSeq(s, i + 1, Len(s))
<1>1. /\ a \in Seq(C) /\ Len(a) = i - 1
      /\ \A j \in 1..(i - 1) : a[j] = s[j]
  OBVIOUS
<1>2. /\ b \in Seq(C) /\ Len(b) = Len(s) - i
      /\ \A j \in 1..(Len(s) - i) : b[j] = s[i + j]
  OBVIOUS
<1>3. Len(s) \in Nat /\ i \in Nat /\ i >= 1 /\ i <= Len(s)
  OBVIOUS
<1>4. RemoveAt(s, i) = a \o b
  BY DEF RemoveAt
<1> HIDE DEF a, b
<1>5. /\ a \o b \in Seq(C) /\ Len(a \o b) = Len(s) - 1
      /\ \A j \in 1..(Len(s) - 1) :
            (a \o b)[j] = IF j <= i - 1 THEN a[j] ELSE b[j - (i - 1)]
  <2>1. a \o b \in Seq(C)
    BY <1>1, <1>2
  <2>2. Len(a \o b) = Len(a) + Len(b)
    <3>1. \A u, v \in Seq(C) : Len(u \o v) = Len(u) + Len(v)
      OBVIOUS
    <3> QED
      BY <1>1, <1>2, <3>1
  <2>3. \A j \in 1..(Len(a) + Len(b)) :
           (a \o b)[j] = IF j <= Len(a) THEN a[j] ELSE b[j - Len(a)]
    BY <1>1, <1>2
  <2>4. Len(a) = i - 1 /\ Len(a) + Len(b) = Len(s) - 1
    BY <1>1, <1>2, <1>3
  <2> QED
    BY <2>1, <2>2, <2>3, <2>4
<1> SUFFICES ASSUME NEW j \in 1..(Len(s) - 1)
             PROVE  (a \o b)[j] = IF j < i THEN s[j] ELSE s[j + 1]
  BY <1>4, <1>5
<1>6. CASE j < i
  BY <1>1, <1>3, <1>5, <1>6
<1>7. CASE ~(j < i)
  <2>1. j - (i - 1) \in 1..(Len(s) - i) /\ i + (j - (i - 1)) = j + 1
    BY <1>3, <1>7
  <2> QED
    BY <1>2, <1>3, <1>5, <1>7, <2>1
<1> QED
  BY <1>6, <1>7

\* A round of the draw moves one candidate to a seat, at most.
LEMMA DrawOneStays ==
    ASSUME NEW set, Entered(set), NEW seed, NEW round, NEW d \in Drawing(set)
    PROVE  /\ DrawOne(seed, d, round) \in Drawing(set)
           /\ Len(DrawOne(seed, d, round).members) <= Len(d.members) + 1
<1> DEFINE C == Candidates(set)
           c == d.candidates
           m == d.members
<1>1. /\ c \in Seq(C) /\ m \in Seq(C) /\ d.remaining \in Nat
      /\ \A i, j \in 1..Len(c) : c[i] = c[j] => i = j
      /\ \A i, j \in 1..Len(m) : m[i] = m[j] => i = j
      /\ \A i \in 1..Len(c), j \in 1..Len(m) : c[i] # m[j]
      /\ Standing(set) > MaxWeight => d.remaining = 0
  BY DEF Drawing
<1>2. CASE c = <<>> \/ d.remaining = 0
  <2>1. DrawOne(seed, d, round) = d
    BY <1>2 DEF DrawOne
  <2>2. Len(m) \in Nat
    BY <1>1
  <2> QED
    BY <2>1, <2>2
<1>3. CASE ~(c = <<>> \/ d.remaining = 0)
  <2> DEFINE i == PickByCumulativeWeight(c, seed.draw[round] % d.remaining)
             x == c[i]
             e == DrawOne(seed, d, round)
             rest == RemoveAt(c, i)
             more == Append(m, x)
  <2>1. e = [candidates |-> rest, remaining |-> Minus(d.remaining, x.weight), members |-> more]
    BY <1>3 DEF DrawOne
  <2>2. i \in 1..Len(c)
    BY <1>1, <1>3, PickIsInList
  <2> HIDE DEF i
  <2>3. x \in C
    BY <1>1, <2>2
  <2>4. x.weight \in Nat
    BY <2>3, EligibleWeight DEF Candidates, Scalable
  <2>5. /\ rest \in Seq(C) /\ Len(rest) = Len(c) - 1
        /\ \A j \in 1..(Len(c) - 1) : rest[j] = IF j < i THEN c[j] ELSE c[j + 1]
    BY <1>1, <2>2, RemoveAtIs
  <2>6. /\ more \in Seq(C) /\ Len(more) = Len(m) + 1
        /\ \A j \in 1..Len(m) : more[j] = m[j]
        /\ more[Len(m) + 1] = x
    BY <1>1, <2>3
  <2>7. Minus(d.remaining, x.weight) \in Nat
    BY <1>1, <2>4 DEF Minus
  <2> HIDE DEF rest, more, C
  <2>8. Len(c) \in Nat /\ Len(m) \in Nat
    BY <1>1
  <2>9. \A j \in 1..Len(rest) : \E k \in 1..Len(c) :
            rest[j] = c[k] /\ k # i /\ k = IF j < i THEN j ELSE j + 1
    <3> SUFFICES ASSUME NEW j \in 1..Len(rest)
                 PROVE  \E k \in 1..Len(c) :
                            rest[j] = c[k] /\ k # i /\ k = IF j < i THEN j ELSE j + 1
      OBVIOUS
    <3> DEFINE k == IF j < i THEN j ELSE j + 1
    <3>1. k \in 1..Len(c) /\ k # i
      BY <2>2, <2>5, <2>8
    <3>2. rest[j] = c[k]
      BY <2>5
    <3> QED
      BY <3>1, <3>2
  <2>10. \A j, k \in 1..Len(rest) : rest[j] = rest[k] => j = k
    <3> SUFFICES ASSUME NEW j \in 1..Len(rest), NEW k \in 1..Len(rest), rest[j] = rest[k]
                 PROVE  j = k
      OBVIOUS
    <3>1. PICK a \in 1..Len(c) : rest[j] = c[a] /\ a = IF j < i THEN j ELSE j + 1
      BY <2>9
    <3>2. PICK b \in 1..Len(c) : rest[k] = c[b] /\ b = IF k < i THEN k ELSE k + 1
      BY <2>9
    <3>3. a = b
      BY <1>1, <3>1, <3>2
    <3>4. i \in Nat /\ j \in Nat /\ k \in Nat
      BY <2>2, <2>5, <2>8
    <3> QED
      BY <3>1, <3>2, <3>3, <3>4
  <2>11. \A j \in 1..Len(more) : j \in 1..Len(m) \/ j = Len(m) + 1
    BY <2>6, <2>8
  <2>12. \A j \in 1..Len(m) : m[j] # x
    BY <1>1, <2>2
  <2>13. \A j, k \in 1..Len(more) : more[j] = more[k] => j = k
    BY <1>1, <2>6, <2>11, <2>12
  <2>14. \A j \in 1..Len(rest), k \in 1..Len(more) : rest[j] # more[k]
    <3> SUFFICES ASSUME NEW j \in 1..Len(rest), NEW k \in 1..Len(more)
                 PROVE  rest[j] # more[k]
      OBVIOUS
    <3>1. PICK a \in 1..Len(c) : rest[j] = c[a] /\ a # i
      BY <2>9
    <3>2. c[a] # x
      BY <1>1, <2>2, <3>1
    <3> QED
      BY <1>1, <2>6, <2>11, <3>1, <3>2
  <2>15. ~(Standing(set) > MaxWeight)
    BY <1>1, <1>3
  <2>16. e \in Drawing(set)
    <3>1. e.candidates = rest /\ e.members = more
      BY <2>1
    <3>2. e \in [candidates : Seq(C), remaining : Nat, members : Seq(C)]
      BY <2>1, <2>5, <2>6, <2>7
    <3> HIDE DEF e
    <3> QED
      BY <2>10, <2>13, <2>14, <2>15, <3>1, <3>2 DEF Drawing, C
  <2> QED
    BY <2>1, <2>6, <2>8, <2>16
<1> QED
  BY <1>2, <1>3

\* The list a draw starts from: every eligible candidate, ascending.
Roll(set) ==
    [i \in 1..Len(Eligible(set)) |->
        [account |-> Eligible(set)[i], weight |-> ValidatorWeight(set, Eligible(set)[i])]]

\* The draw before its first round.
Start(set) ==
    [candidates |-> Roll(set),
     remaining  |-> TotalWeight([i \in 1..Len(Roll(set)) |-> Roll(set)[i].weight]),
     members    |-> <<>>]

\* Its rounds, one a seat.
Rounds(set) == [round \in 1..AtMost(Sampled, Len(Roll(set))) |-> round]

\* h is the draw after each set of rounds.
DrawFolds(seed, base, rounds, h) == h = [s \in SUBSET DOMAIN rounds |->
    IF s = {} THEN base ELSE DrawOne(seed, h[s \ {Max(s)}], rounds[Max(s)])]

\* The draw after all of them, by the function the library's fold chooses.
Drew(set, seed) ==
    (CHOOSE h : DrawFolds(seed, Start(set), Rounds(set), h))[DOMAIN Rounds(set)]

\* The draw is that.
LEMMA DrawIs ==
    ASSUME NEW set, NEW seed
    PROVE  Draw(set, seed) =
              [members |-> Drew(set, seed).members,
               permutation |-> ActivationPermutation(Len(Drew(set, seed).members), seed)]
BY Zenon DEF Draw, Drew, DrawFolds, Start, Roll, Rounds, FoldLeft, MapThenFoldSet

\* The draw starts with every candidate in the list, and with their weight.
LEMMA StartStays ==
    ASSUME NEW set, Entered(set)
    PROVE  Start(set) \in Drawing(set)
<1> DEFINE E == {v \in Accounts : IsEligible(set, v)}
           n == Cardinality(E)
           order == Eligible(set)
           roll == Roll(set)
           C == Candidates(set)
           weigh == [v \in Accounts |-> IF IsEligible(set, v) THEN ValidatorWeight(set, v) ELSE 0]
           k == [i \in 1..Len(roll) |-> roll[i].weight]
<1>1. IsFiniteSet(E) /\ E \subseteq Nat /\ E \subseteq Accounts
  BY CommitteeAssumption, FS_Subset
<1>2. order = InOrder(E)
  BY DEF Eligible
<1>3. /\ n \in Nat /\ order \in [1..n -> E] /\ Len(order) = n
      /\ \A i, j \in 1..n : order[i] = order[j] => i = j
      /\ {order[i] : i \in 1..n} = E
  <2> HIDE DEF E
  <2>1. /\ Cardinality(E) \in Nat /\ InOrder(E) \in [1..Cardinality(E) -> E]
        /\ Len(InOrder(E)) = Cardinality(E)
        /\ \A i, j \in 1..Cardinality(E) : InOrder(E)[i] = InOrder(E)[j] => i = j
        /\ {InOrder(E)[i] : i \in 1..Cardinality(E)} = E
    BY <1>1, InOrderLists
  <2> HIDE DEF order
  <2> QED
    BY <1>2, <2>1
<1>4. roll = [i \in 1..n |-> [account |-> order[i], weight |-> ValidatorWeight(set, order[i])]]
  BY <1>3 DEF Roll
<1>5. \A i \in 1..n : /\ roll[i] \in C /\ roll[i].account = order[i]
                      /\ roll[i].weight = ValidatorWeight(set, order[i])
                      /\ order[i] \in E
  BY <1>3, <1>4 DEF Candidates
<1>6. \A v \in E : weigh[v] = ValidatorWeight(set, v) /\ weigh[v] \in Nat
  BY EligibleWeight DEF Scalable
<1>7. \A v \in Accounts : weigh[v] \in Nat
  BY EligibleWeight DEF Scalable
<1>8. Standing(set) = SumFunctionOnSet(weigh, Accounts)
  BY DEF Standing
<1>9. roll \in Seq(C) /\ Len(roll) = n
  <2> HIDE DEF C
  <2>1. roll \in [1..n -> C]
    BY <1>4, <1>5
  <2>2. n \in Nat
    BY <1>3
  <2> HIDE DEF roll, n
  <2> QED
    BY <2>1, <2>2
<1>10. TotalWeight(k) = IF SumFunctionOnSet(k, 1..n) <= MaxWeight
                        THEN SumFunctionOnSet(k, 1..n) ELSE 0
  BY <1>9 DEF TotalWeight, SumFunction
<1>11. \A i \in 1..n : k[i] = weigh[order[i]] /\ weigh[order[i]] \in Int
  BY <1>5, <1>6, <1>9
<1>12. Start(set) = [candidates |-> roll, remaining |-> TotalWeight(k), members |-> <<>>]
  BY DEF Start
<1> HIDE DEF E, n, order, roll, weigh, k, C
<1>13. SumFunctionOnSet(k, 1..n) = SumFunctionOnSet(weigh, E)
  <2>1. IsFiniteSet(1..n)
    BY <1>3, FS_Interval
  <2> DEFINE I == 1..n
  <2>2. /\ IsFiniteSet(I) /\ \A i, j \in I : order[i] = order[j] => i = j
        /\ \A i \in I : order[i] \in E
        /\ \A v \in E : \E i \in I : v = order[i]
        /\ \A i \in I : k[i] = weigh[order[i]]
    BY <1>3, <1>11, <2>1
  <2>3. \A v \in E : weigh[v] \in Int
    BY <1>6
  <2> HIDE DEF I
  <2>4. SumFunctionOnSet(k, I) = SumFunctionOnSet(weigh, E)
    BY <2>2, <2>3, SumImage
  <2> QED
    BY <2>4 DEF I
<1>14. SumFunctionOnSet(weigh, E) = Standing(set)
  <2>1. \A v \in E : weigh[v] \in Int
    BY <1>6
  <2>2. \A v \in Accounts : weigh[v] = IF v \in E THEN weigh[v] ELSE 0
    BY DEF weigh, E
  <2>3. IsFiniteSet(Accounts) /\ E \in SUBSET Accounts
    BY <1>1, CommitteeAssumption
  <2> QED
    BY <1>8, <2>1, <2>2, <2>3, SumOfSubset
<1>15. Standing(set) \in Nat
  BY <1>7, <1>8, CommitteeAssumption, SumNat
<1>16. /\ TotalWeight(k) \in Nat
       /\ Standing(set) > MaxWeight => TotalWeight(k) = 0
  BY <1>10, <1>13, <1>14, <1>15, CommitteeAssumption
<1>17. \A i, j \in 1..Len(roll) : roll[i] = roll[j] => i = j
  BY <1>3, <1>5, <1>9
<1>18. Start(set) \in [candidates : Seq(C), remaining : Nat, members : Seq(C)]
  <2>1. <<>> \in Seq(C)
    OBVIOUS
  <2> QED
    BY <1>9, <1>12, <1>16, <2>1
<1>19. /\ Start(set).candidates = roll /\ Start(set).members = <<>>
       /\ Start(set).remaining = TotalWeight(k)
  BY <1>12
<1>20. Len(Start(set).members) = 0
  BY <1>19
<1> QED
  BY <1>16, <1>17, <1>18, <1>19, <1>20 DEF Drawing, C

\* The rounds fold: the draw ends where a draw may stand, with a seat a round
\* at most.
LEMMA DrewStays ==
    ASSUME NEW set, Entered(set), NEW seed
    PROVE  /\ Drew(set, seed) \in Drawing(set)
           /\ Len(Drew(set, seed).members) <= Sampled
<1> DEFINE n == AtMost(Sampled, Len(Roll(set)))
           S == DOMAIN Rounds(set)
           V == Drawing(set)
           pick == [s \in SUBSET S |-> Max(s)]
           step == [i \in S |-> [d \in V |-> DrawOne(seed, d, Rounds(set)[i])]]
           base == Start(set)
           chosen == CHOOSE h : DrawFolds(seed, base, Rounds(set), h)
<1>1. base \in V
  BY StartStays
<1>2. S = 1..n /\ n \in Nat /\ n <= Sampled
  <2>1. Len(Roll(set)) \in Nat
    <3>1. base.candidates = Roll(set)
      BY DEF Start
    <3>2. Roll(set) \in Seq(Candidates(set))
      BY <1>1, <3>1 DEF Drawing
    <3> QED
      BY <3>2
  <2> QED
    BY <2>1, CommitteeAssumption DEF Rounds, AtMost
<1>3. IsFiniteSet(S)
  BY <1>2, FS_Interval
<1>4. \A s \in SUBSET S : s # {} => pick[s] \in s
  <2> SUFFICES ASSUME NEW s \in SUBSET S, s # {} PROVE Max(s) \in s
    OBVIOUS
  <2>1. IsFiniteSet(s)
    BY <1>3, FS_Subset
  <2>2. s \subseteq Int
    <3>1. 1..n \subseteq Int
      BY <1>2
    <3> QED
      BY <1>2, <3>1
  <2> QED
    BY <2>1, <2>2, MaxIsLargest
<1>5. step \in [S -> [V -> V]]
  <2>1. \A i \in S, d \in V : DrawOne(seed, d, Rounds(set)[i]) \in V
    BY DrawOneStays
  <2> HIDE DEF V, S
  <2> QED
    BY <2>1
<1>6. PICK h : Folds(step, base, pick, S, h)
  <2> HIDE DEF step, base, pick, S
  <2> QED
    BY <1>3, <1>4, FoldExists
<1>7. \A s \in SUBSET S : h[s] \in V
  <2> HIDE DEF step, base, pick, S, V
  <2> QED
    BY <1>1, <1>3, <1>4, <1>5, <1>6, FoldStays
<1>8. DrawFolds(seed, base, Rounds(set), h)
  <2>1. \A s \in SUBSET S :
           h[s] = IF s = {} THEN base
                  ELSE DrawOne(seed, h[s \ {Max(s)}], Rounds(set)[Max(s)])
    <3> SUFFICES ASSUME NEW s \in SUBSET S
                 PROVE  h[s] = IF s = {} THEN base
                               ELSE DrawOne(seed, h[s \ {Max(s)}], Rounds(set)[Max(s)])
      OBVIOUS
    <3>1. h[s] = IF s = {} THEN base ELSE step[pick[s]][h[s \ {pick[s]}]]
      <4> HIDE DEF step, base, pick, S
      <4> QED
        BY <1>6 DEF Folds
    <3>2. ASSUME s # {}
          PROVE  step[pick[s]][h[s \ {pick[s]}]]
                    = DrawOne(seed, h[s \ {Max(s)}], Rounds(set)[Max(s)])
      <4>1. Max(s) \in S /\ pick[s] = Max(s)
        BY <1>4, <3>2
      <4>2. h[s \ {Max(s)}] \in V
        BY <1>7
      <4> HIDE DEF V, S
      <4> QED
        BY <4>1, <4>2
    <3> HIDE DEF step, base, pick, S
    <3> QED
      BY <3>1, <3>2
  <2>2. h = [s \in SUBSET S |-> h[s]]
    <3> HIDE DEF step, base, pick, S
    <3> QED
      BY <1>6 DEF Folds
  <2> HIDE DEF base
  <2> QED
    BY <2>1, <2>2 DEF DrawFolds
<1>9. DrawFolds(seed, base, Rounds(set), chosen)
  <2> HIDE DEF base
  <2> QED
    BY <1>8, Zenon
<1> HIDE DEF chosen
<1> DEFINE G == {T \in SUBSET S : /\ chosen[T] \in V
                                  /\ Len(chosen[T].members) <= Cardinality(T)}
<1>10. {} \in G
  <2>1. chosen[{}] = base
    BY <1>9 DEF DrawFolds
  <2>2. Len(base.members) = 0
    BY DEF Start
  <2> QED
    BY <1>1, <2>1, <2>2, FS_EmptySet
<1>11. ASSUME NEW T \in SUBSET S, T # {}, \A x \in T : T \ {x} \in G
       PROVE  T \in G
  <2> DEFINE R == T \ {Max(T)}
  <2>1. Max(T) \in T
    BY <1>4, <1>11
  <2>2. chosen[R] \in V /\ Len(chosen[R].members) <= Cardinality(R)
    BY <1>11, <2>1
  <2>3. chosen[T] = DrawOne(seed, chosen[R], Rounds(set)[Max(T)])
    BY <1>9, <1>11 DEF DrawFolds
  <2>4. IsFiniteSet(T)
    BY <1>3, FS_Subset
  <2>5. Cardinality(T) \in Nat /\ Cardinality(R) = Cardinality(T) - 1
    BY <2>1, <2>4, FS_RemoveElement, FS_CardinalityType
  <2>6. Len(chosen[R].members) \in Nat /\ Len(chosen[T].members) \in Nat
    BY <2>2, <2>3, DrawOneStays DEF Drawing
  <2>7. /\ chosen[T] \in V
        /\ Len(chosen[T].members) <= Len(chosen[R].members) + 1
    BY <2>2, <2>3, DrawOneStays
  <2> HIDE DEF R, V
  <2>8. Len(chosen[T].members) <= Cardinality(T)
    BY <2>2, <2>5, <2>6, <2>7
  <2> QED
    BY <2>7, <2>8
<1> HIDE DEF G
<1>12. S \in G
  <2> HIDE DEF S
  <2> QED
    BY <1>3, <1>10, <1>11, SetInduction
<1>13. Drew(set, seed) = chosen[S]
  BY DEF Drew, chosen
<1>14. Cardinality(S) = n
  BY <1>2, FS_Interval
<1>15. chosen[S] \in V /\ Len(chosen[S].members) <= n
  BY <1>12, <1>14 DEF G
<1>16. Len(chosen[S].members) \in Nat
  BY <1>15 DEF Drawing
<1> QED
  BY <1>2, <1>13, <1>15, <1>16, CommitteeAssumption

----------------------------------------------------------------------------
(* The activation permutation. *)

\* The permutations of 1..n.
Orders(n) ==
    {p \in [1..n -> 1..n] : /\ \A i, j \in 1..n : p[i] = p[j] => i = j
                            /\ \A k \in 1..n : \E i \in 1..n : p[i] = k}

\* One exchange of the shuffle.
Swap(seed, order, i) ==
    LET j == (seed.activate[i] % i) + 1
    IN  [order EXCEPT ![i] = order[j], ![j] = order[i]]

\* Where the shuffle exchanges, from the last place down.
Places(size) == [k \in 1..Minus(size, 1) |-> size + 1 - k]

\* h is the order after each set of exchanges.
SwapFolds(seed, size, places, h) == h = [s \in SUBSET DOMAIN places |->
    IF s = {} THEN [i \in 1..size |-> i] ELSE Swap(seed, h[s \ {Max(s)}], places[Max(s)])]

\* The permutation is that fold's.
LEMMA PermutationIs ==
    ASSUME NEW size, NEW seed
    PROVE  ActivationPermutation(size, seed) =
              (CHOOSE h : SwapFolds(seed, size, Places(size), h))[DOMAIN Places(size)]
BY Zenon DEF ActivationPermutation, SwapFolds, Swap, Places, FoldLeft, MapThenFoldSet

\* An exchange makes a permutation of a permutation.
LEMMA SwapStays ==
    ASSUME NEW n \in Nat, n <= Sampled, NEW seed \in Seeds, NEW i \in 1..n,
           NEW p \in Orders(n)
    PROVE  Swap(seed, p, i) \in Orders(n)
<1> DEFINE j == (seed.activate[i] % i) + 1
           q == [p EXCEPT ![i] = p[j], ![j] = p[i]]
<1>1. j \in 1..n
  <2>1. i \in Nat \ {0} /\ i <= n /\ i \in 1..Sampled
    BY CommitteeAssumption
  <2>2. seed.activate[i] \in Nat
    BY <2>1, SeedAssumption
  <2>3. seed.activate[i] % i \in 0..(i - 1)
    BY <2>1, <2>2, Remainder
  <2> DEFINE r == seed.activate[i] % i
  <2> HIDE DEF r
  <2>4. r + 1 \in 1..n
    BY <2>1, <2>3 DEF r
  <2> QED
    BY <2>4 DEF r
<1>2. q = Swap(seed, p, i)
  BY DEF Swap
<1> HIDE DEF j
<1>3. /\ p \in [1..n -> 1..n]
      /\ \A k, l \in 1..n : p[k] = p[l] => k = l
      /\ \A k \in 1..n : \E l \in 1..n : p[l] = k
  BY DEF Orders
<1>4. /\ q \in [1..n -> 1..n] /\ q[i] = p[j] /\ q[j] = p[i]
      /\ \A k \in 1..n : k # i /\ k # j => q[k] = p[k]
  BY <1>1, <1>3
<1> HIDE DEF q
<1>5. \A k, l \in 1..n : q[k] = q[l] => k = l
  <2> DEFINE from(k) == IF k = i THEN j ELSE IF k = j THEN i ELSE k
  <2>1. \A k \in 1..n : from(k) \in 1..n /\ q[k] = p[from(k)]
    BY <1>1, <1>4
  <2>2. \A k, l \in 1..n : from(k) = from(l) => k = l
    OBVIOUS
  <2> HIDE DEF from
  <2> QED
    BY <1>3, <2>1, <2>2
<1>6. \A k \in 1..n : \E l \in 1..n : q[l] = k
  BY <1>1, <1>3, <1>4
<1> QED
  BY <1>2, <1>4, <1>5, <1>6 DEF Orders

\* The activation permutation is one.
LEMMA PermutationStays ==
    ASSUME NEW n \in Nat, n <= Sampled, NEW seed \in Seeds
    PROVE  ActivationPermutation(n, seed) \in Orders(n)
<1> DEFINE S == DOMAIN Places(n)
           V == Orders(n)
           pick == [s \in SUBSET S |-> Max(s)]
           step == [k \in S |-> [p \in V |-> Swap(seed, p, Places(n)[k])]]
           base == [i \in 1..n |-> i]
           chosen == CHOOSE h : SwapFolds(seed, n, Places(n), h)
<1>1. base \in V
  BY DEF Orders
<1>2. /\ S = 1..Minus(n, 1) /\ Minus(n, 1) \in Nat
      /\ \A k \in S : Places(n)[k] \in 1..n
  BY DEF Places, Minus
<1>3. IsFiniteSet(S)
  BY <1>2, FS_Interval
<1>4. \A s \in SUBSET S : s # {} => pick[s] \in s
  <2> SUFFICES ASSUME NEW s \in SUBSET S, s # {} PROVE Max(s) \in s
    OBVIOUS
  <2>1. IsFiniteSet(s)
    BY <1>3, FS_Subset
  <2>2. s \subseteq Int
    <3>1. 1..Minus(n, 1) \subseteq Int
      BY <1>2
    <3> QED
      BY <1>2, <3>1
  <2> QED
    BY <2>1, <2>2, MaxIsLargest
<1>5. step \in [S -> [V -> V]]
  <2>1. \A k \in S, p \in V : Swap(seed, p, Places(n)[k]) \in V
    BY <1>2, SwapStays
  <2> HIDE DEF V, S
  <2> QED
    BY <2>1
<1>6. PICK h : Folds(step, base, pick, S, h)
  <2> HIDE DEF step, base, pick, S
  <2> QED
    BY <1>3, <1>4, FoldExists
<1>7. \A s \in SUBSET S : h[s] \in V
  <2> HIDE DEF step, base, pick, S, V
  <2> QED
    BY <1>1, <1>3, <1>4, <1>5, <1>6, FoldStays
<1>8. SwapFolds(seed, n, Places(n), h)
  <2>1. \A s \in SUBSET S :
           h[s] = IF s = {} THEN base
                  ELSE Swap(seed, h[s \ {Max(s)}], Places(n)[Max(s)])
    <3> SUFFICES ASSUME NEW s \in SUBSET S
                 PROVE  h[s] = IF s = {} THEN base
                               ELSE Swap(seed, h[s \ {Max(s)}], Places(n)[Max(s)])
      OBVIOUS
    <3>1. h[s] = IF s = {} THEN base ELSE step[pick[s]][h[s \ {pick[s]}]]
      <4> HIDE DEF step, base, pick, S
      <4> QED
        BY <1>6 DEF Folds
    <3>2. ASSUME s # {}
          PROVE  step[pick[s]][h[s \ {pick[s]}]]
                    = Swap(seed, h[s \ {Max(s)}], Places(n)[Max(s)])
      <4>1. Max(s) \in S /\ pick[s] = Max(s)
        BY <1>4, <3>2
      <4>2. h[s \ {Max(s)}] \in V
        BY <1>7
      <4> HIDE DEF V, S
      <4> QED
        BY <4>1, <4>2
    <3> HIDE DEF step, base, pick, S
    <3> QED
      BY <3>1, <3>2
  <2>2. h = [s \in SUBSET S |-> h[s]]
    <3> HIDE DEF step, base, pick, S
    <3> QED
      BY <1>6 DEF Folds
  <2> QED
    BY <2>1, <2>2 DEF SwapFolds
<1>9. SwapFolds(seed, n, Places(n), chosen)
  BY <1>8, Zenon
<1> HIDE DEF chosen
<1> DEFINE G == {T \in SUBSET S : chosen[T] \in V}
<1>10. {} \in G
  <2>1. chosen[{}] = base
    BY <1>9 DEF SwapFolds
  <2> QED
    BY <1>1, <2>1
<1>11. ASSUME NEW T \in SUBSET S, T # {}, \A x \in T : T \ {x} \in G
       PROVE  T \in G
  <2>1. Max(T) \in T
    BY <1>4, <1>11
  <2>2. chosen[T \ {Max(T)}] \in V
    BY <1>11, <2>1
  <2>3. chosen[T] = Swap(seed, chosen[T \ {Max(T)}], Places(n)[Max(T)])
    BY <1>9, <1>11 DEF SwapFolds
  <2>4. Places(n)[Max(T)] \in 1..n
    BY <1>2, <2>1
  <2> HIDE DEF S
  <2>5. chosen[T] \in V
    BY <2>2, <2>3, <2>4, SwapStays
  <2> QED
    BY <2>5
<1> HIDE DEF G
<1>12. S \in G
  <2> HIDE DEF S
  <2> QED
    BY <1>3, <1>10, <1>11, SetInduction
<1>13. ActivationPermutation(n, seed) = chosen[S]
  BY PermutationIs DEF chosen
<1> QED
  BY <1>12, <1>13 DEF G

----------------------------------------------------------------------------
(* Committees. *)

\* What a set of members weighs, with the weights of the draw.
Heft(c, S) == SumFunctionOnSet([v \in S |-> SeatWeight(c, v)], S)

\* A committee as a draw leaves it.
Seated(c) ==
    /\ c.members \in Seq([account : Accounts, weight : Scalable])
    /\ \A i, j \in 1..Len(c.members) : c.members[i].account = c.members[j].account => i = j
    /\ c.permutation \in Orders(Len(c.members))
    /\ Heft(c, Seats(c)) <= MaxWeight

\* A seat's account has the weight of that seat.
LEMMA SeatFacts ==
    ASSUME NEW c, c.members \in Seq([account : Accounts, weight : Scalable]),
           \A i, j \in 1..Len(c.members) : c.members[i].account = c.members[j].account => i = j
    PROVE  /\ Seats(c) = {c.members[i].account : i \in 1..Len(c.members)}
           /\ \A i \in 1..Len(c.members) :
                 SeatWeight(c, c.members[i].account) = c.members[i].weight
           /\ \A v \in Seats(c) : SeatWeight(c, v) \in Scalable /\ v \in Accounts
           /\ IsFiniteSet(Seats(c))
<1> DEFINE m == c.members
           R == [account : Accounts, weight : Scalable]
<1>1. /\ m \in Seq(R) /\ DOMAIN m = 1..Len(m) /\ \A i \in 1..Len(m) : m[i] \in R
      /\ ToSet(m) = {m[i] : i \in 1..Len(m)}
  <2>1. m \in Seq(R)
    OBVIOUS
  <2> HIDE DEF m, R
  <2>2. DOMAIN m = 1..Len(m) /\ \A i \in 1..Len(m) : m[i] \in R
    BY <2>1
  <2> QED
    BY <2>1, <2>2 DEF ToSet
<1>2. \A i \in 1..Len(m) : m[i].account \in Accounts /\ m[i].weight \in Scalable
  BY <1>1
<1> HIDE DEF R
<1>3. Seats(c) = {m[i].account : i \in 1..Len(m)}
  BY <1>1 DEF Seats
<1>4. ASSUME NEW i \in 1..Len(m)
      PROVE  SeatWeight(c, m[i].account) = m[i].weight
  <2> DEFINE x == CHOOSE member \in ToSet(m) : member.account = m[i].account
  <2>1. x \in ToSet(m) /\ x.account = m[i].account
    BY <1>1
  <2>2. PICK j \in 1..Len(m) : x = m[j]
    BY <1>1, <2>1
  <2>3. j = i
    BY <2>1, <2>2
  <2>4. SeatWeight(c, m[i].account) = x.weight
    BY DEF SeatWeight
  <2> QED
    BY <2>2, <2>3, <2>4
<1>5. Seats(c) \subseteq Accounts
  BY <1>2, <1>3
<1>6. IsFiniteSet(Seats(c))
  BY <1>5, CommitteeAssumption, FS_Subset
<1>7. \A v \in Seats(c) : SeatWeight(c, v) \in Scalable /\ v \in Accounts
  BY <1>2, <1>3, <1>4
<1> QED
  BY <1>3, <1>4, <1>6, <1>7

\* Every draw leaves a committee like that.
LEMMA DrawSeats ==
    ASSUME NEW set, Entered(set), NEW seed \in Seeds
    PROVE  Seated(Draw(set, seed))
<1> DEFINE c == Draw(set, seed)
           d == Drew(set, seed)
           m == d.members
           weigh == [v \in Accounts |-> IF IsEligible(set, v) THEN ValidatorWeight(set, v) ELSE 0]
<1>1. /\ c.members = m /\ c.permutation = ActivationPermutation(Len(m), seed)
  BY DrawIs
<1>2. d \in Drawing(set) /\ Len(m) <= Sampled
  BY DrewStays
<1>3. /\ m \in Seq(Candidates(set))
      /\ \A i, j \in 1..Len(m) : m[i] = m[j] => i = j
      /\ Standing(set) > MaxWeight => m = <<>>
  BY <1>2 DEF Drawing
<1>4. \A x \in Candidates(set) :
         /\ x \in [account : Accounts, weight : Scalable]
         /\ IsEligible(set, x.account) /\ x.weight = ValidatorWeight(set, x.account)
  BY EligibleWeight DEF Candidates
<1>5. \A x, y \in Candidates(set) : x.account = y.account => x = y
  BY DEF Candidates
<1> HIDE DEF c, d
<1>6. m \in Seq([account : Accounts, weight : Scalable])
  <2> DEFINE R == [account : Accounts, weight : Scalable]
             C == Candidates(set)
  <2>1. C \subseteq R
    BY <1>4
  <2>2. m \in Seq(C)
    BY <1>3
  <2> HIDE DEF R, C, m
  <2>3. Len(m) \in Nat /\ m \in [1..Len(m) -> R]
    BY <2>1, <2>2
  <2>4. m \in Seq(R)
    BY <2>3
  <2> QED
    BY <2>4 DEF R
<1>7. \A i, j \in 1..Len(m) : m[i].account = m[j].account => i = j
  BY <1>3, <1>5
<1>8. Len(m) \in Nat
  BY <1>3
<1>9. c.permutation \in Orders(Len(c.members))
  BY <1>1, <1>2, <1>8, PermutationStays
<1>10. /\ Seats(c) = {m[i].account : i \in 1..Len(m)}
       /\ \A i \in 1..Len(m) : SeatWeight(c, m[i].account) = m[i].weight
       /\ IsFiniteSet(Seats(c)) /\ Seats(c) \in SUBSET Accounts
  <2>1. /\ c.members \in Seq([account : Accounts, weight : Scalable])
        /\ \A i, j \in 1..Len(c.members) : c.members[i].account = c.members[j].account => i = j
    BY <1>1, <1>6, <1>7
  <2>2. /\ Seats(c) = {c.members[i].account : i \in 1..Len(c.members)}
        /\ \A i \in 1..Len(c.members) :
              SeatWeight(c, c.members[i].account) = c.members[i].weight
        /\ \A v \in Seats(c) : v \in Accounts
        /\ IsFiniteSet(Seats(c))
    BY <2>1, SeatFacts
  <2> HIDE DEF m
  <2> QED
    BY <1>1, <2>2
<1>11. \A v \in Accounts : weigh[v] \in Nat
  BY EligibleWeight DEF Scalable
<1>12. \A i \in 1..Len(m) : m[i] \in Candidates(set)
  BY <1>3
<1>13. \A v \in Seats(c) : SeatWeight(c, v) = weigh[v]
  BY <1>4, <1>10, <1>12
<1> DEFINE f == [v \in Seats(c) |-> SeatWeight(c, v)]
<1>14. Heft(c, Seats(c)) = SumFunctionOnSet(f, Seats(c))
  BY DEF Heft
<1>15. \A v \in Seats(c) : f[v] = weigh[v]
  BY <1>13
<1>16. Standing(set) = SumFunctionOnSet(weigh, Accounts)
  BY DEF Standing
<1> HIDE DEF weigh, f
<1>17. SumFunctionOnSet(f, Seats(c)) = SumFunctionOnSet(weigh, Seats(c))
  BY <1>10, <1>15, SumEqual
<1>18. SumFunctionOnSet(weigh, Seats(c)) <= Standing(set)
  BY <1>10, <1>11, <1>16, CommitteeAssumption, SumSubset
<1>19. Standing(set) \in Nat /\ SumFunctionOnSet(weigh, Seats(c)) \in Nat
  BY <1>10, <1>11, <1>16, CommitteeAssumption, SumNat
<1>20. Heft(c, Seats(c)) <= MaxWeight
  <2>1. CASE Standing(set) > MaxWeight
    <3>1. Len(m) = 0
      BY <1>3, <2>1
    <3>2. Seats(c) = {}
      BY <1>10, <3>1
    <3> QED
      BY <1>14, <3>2, SumEmpty, CommitteeAssumption
  <2>2. CASE ~(Standing(set) > MaxWeight)
    BY <1>14, <1>17, <1>18, <1>19, <2>2, CommitteeAssumption
  <2> QED
    BY <2>1, <2>2
<1> QED
  BY <1>1, <1>6, <1>7, <1>9, <1>20 DEF Seated, c

\* What any seats weigh is a sum within the width, larger for more seats.
LEMMA HeftFacts ==
    ASSUME NEW c, Seated(c), NEW S, S \subseteq Seats(c)
    PROVE  /\ IsFiniteSet(S) /\ Heft(c, S) \in 0..MaxWeight
           /\ TotalWeight([v \in S |-> SeatWeight(c, v)]) = Heft(c, S)
<1> DEFINE f == [v \in Seats(c) |-> SeatWeight(c, v)]
           g == [v \in S |-> SeatWeight(c, v)]
<1>1. IsFiniteSet(Seats(c)) /\ \A v \in Seats(c) : SeatWeight(c, v) \in Nat
  BY SeatFacts DEF Seated, Scalable
<1>2. IsFiniteSet(S)
  BY <1>1, FS_Subset
<1>3. /\ \A v \in Seats(c) : f[v] \in Nat
      /\ \A v \in S : g[v] \in Nat /\ g[v] = f[v]
  BY <1>1
<1>4. Heft(c, Seats(c)) = SumFunctionOnSet(f, Seats(c)) /\ Heft(c, S) = SumFunctionOnSet(g, S)
  BY DEF Heft
<1>5. TotalWeight(g) = IF Heft(c, S) <= MaxWeight THEN Heft(c, S) ELSE 0
  BY DEF TotalWeight, SumFunction, Heft
<1> HIDE DEF f, g
<1>6. SumFunctionOnSet(g, S) = SumFunctionOnSet(f, S)
  BY <1>2, <1>3, SumEqual
<1>7. SumFunctionOnSet(f, S) <= SumFunctionOnSet(f, Seats(c))
  BY <1>1, <1>3, SumSubset
<1>8. SumFunctionOnSet(g, S) \in Nat /\ SumFunctionOnSet(f, Seats(c)) \in Nat
  BY <1>1, <1>2, <1>3, SumNat
<1>9. Heft(c, S) \in 0..MaxWeight
  BY <1>4, <1>6, <1>7, <1>8, CommitteeAssumption DEF Seated
<1> QED
  BY <1>2, <1>5, <1>9 DEF g

\* Seats in a larger set weigh at least as much.
LEMMA HeftGrows ==
    ASSUME NEW c, Seated(c), NEW S, S \subseteq Seats(c), NEW T, T \subseteq S
    PROVE  Heft(c, T) <= Heft(c, S)
<1> DEFINE f == [v \in S |-> SeatWeight(c, v)]
           g == [v \in T |-> SeatWeight(c, v)]
<1>1. /\ IsFiniteSet(S) /\ IsFiniteSet(T)
      /\ \A v \in Seats(c) : SeatWeight(c, v) \in Nat
  BY SeatFacts, HeftFacts DEF Seated, Scalable
<1>2. /\ \A v \in S : f[v] \in Nat
      /\ \A v \in T : g[v] = f[v]
  BY <1>1
<1>3. Heft(c, S) = SumFunctionOnSet(f, S) /\ Heft(c, T) = SumFunctionOnSet(g, T)
  BY DEF Heft
<1> HIDE DEF f, g
<1>4. SumFunctionOnSet(g, T) = SumFunctionOnSet(f, T)
  BY <1>1, <1>2, SumEqual
<1> QED
  BY <1>1, <1>2, <1>3, <1>4, SumSubset

\* Two sets of seats weigh what their union and their overlap weigh.
LEMMA HeftOverlaps ==
    ASSUME NEW c, Seated(c), NEW S, S \subseteq Seats(c), NEW T, T \subseteq Seats(c)
    PROVE  Heft(c, S) + Heft(c, T) = Heft(c, S \cup T) + Heft(c, S \cap T)
<1> DEFINE f == [v \in Seats(c) |-> SeatWeight(c, v)]
           Sum(U) == SumFunctionOnSet(f, U)
<1>1. \A v \in Seats(c) : f[v] \in Int
  BY SeatFacts DEF Seated, Scalable
<1>2. ASSUME NEW U, U \subseteq Seats(c)
      PROVE  IsFiniteSet(U) /\ Heft(c, U) = Sum(U) /\ Sum(U) \in Int
  <2> DEFINE g == [v \in U |-> SeatWeight(c, v)]
  <2>1. IsFiniteSet(U) /\ Heft(c, U) = SumFunctionOnSet(g, U) /\ Heft(c, U) \in Int
    BY <1>2, HeftFacts DEF Heft
  <2>2. \A v \in U : g[v] = f[v]
    BY <1>2
  <2> HIDE DEF f, g
  <2>3. SumFunctionOnSet(g, U) = SumFunctionOnSet(f, U)
    BY <2>1, <2>2, SumEqual
  <2> QED
    BY <2>1, <2>3
<1> HIDE DEF f
<1>3. Sum(S) = Sum(S \ T) + Sum(S \cap T)
  <2> DEFINE A == S \ T
             B == S \cap T
  <2>1. /\ IsFiniteSet(A) /\ IsFiniteSet(B) /\ A \cap B = {}
        /\ A \cup B = S /\ \A v \in A \cup B : f[v] \in Int
    BY <1>1, <1>2
  <2> HIDE DEF A, B
  <2>2. SumFunctionOnSet(f, A \cup B) = SumFunctionOnSet(f, A) + SumFunctionOnSet(f, B)
    BY <2>1, SumUnion
  <2> QED
    BY <2>1, <2>2 DEF A, B
<1>4. Sum(S \cup T) = Sum(S \ T) + Sum(T)
  <2> DEFINE A == S \ T
  <2>1. /\ IsFiniteSet(A) /\ IsFiniteSet(T) /\ A \cap T = {}
        /\ A \cup T = S \cup T /\ \A v \in A \cup T : f[v] \in Int
    BY <1>1, <1>2
  <2> HIDE DEF A
  <2>2. SumFunctionOnSet(f, A \cup T) = SumFunctionOnSet(f, A) + SumFunctionOnSet(f, T)
    BY <2>1, SumUnion
  <2> QED
    BY <2>1, <2>2 DEF A
<1>5. /\ Heft(c, S) = Sum(S) /\ Heft(c, T) = Sum(T)
      /\ Heft(c, S \cup T) = Sum(S \cup T) /\ Heft(c, S \cap T) = Sum(S \cap T)
      /\ Sum(S) \in Int /\ Sum(T) \in Int /\ Sum(S \cap T) \in Int /\ Sum(S \ T) \in Int
  BY <1>2
<1> HIDE DEF Sum
<1> QED
  BY <1>3, <1>4, <1>5

----------------------------------------------------------------------------
(* The duty roster. *)

\* The window at a block: each step of it names one seat, no two the same.
LEMMA DutySteps ==
    ASSUME NEW c, Seated(c), NEW b \in Nat
    PROVE  LET n == Len(c.members)
               k == AtMost(Active, n)
               seat == [step \in 0..(k - 1) |->
                          c.members[c.permutation[((b + step) % n) + 1]].account]
           IN  /\ n \in Nat /\ k \in Nat /\ k <= n
               /\ ActiveAt(c, b) = {seat[step] : step \in 0..(k - 1)}
               /\ \A step \in 0..(k - 1) : seat[step] \in Seats(c)
               /\ \A i, j \in 0..(k - 1) : seat[i] = seat[j] => i = j
<1> DEFINE n == Len(c.members)
           k == AtMost(Active, n)
           at(step) == ((b + step) % n) + 1
           seat == [step \in 0..(k - 1) |-> c.members[c.permutation[at(step)]].account]
<1>1. n \in Nat /\ k \in Nat /\ k <= n
  BY CommitteeAssumption DEF Seated, AtMost
<1>2. ActiveAt(c, b) = {seat[step] : step \in 0..(k - 1)}
  BY DEF ActiveAt
<1>3. \A step \in 0..(k - 1) : seat[step] = c.members[c.permutation[at(step)]].account
  OBVIOUS
<1>4. /\ c.permutation \in [1..n -> 1..n]
      /\ \A i, j \in 1..n : c.permutation[i] = c.permutation[j] => i = j
      /\ \A i, j \in 1..n : c.members[i].account = c.members[j].account => i = j
      /\ \A i \in 1..n : c.members[i].account \in Seats(c)
  <2>1. Seats(c) = {c.members[i].account : i \in 1..n}
    BY SeatFacts DEF Seated
  <2>2. \A i \in 1..n : c.members[i].account \in Seats(c)
    BY <2>1
  <2> QED
    BY <2>2 DEF Seated, Orders
<1> HIDE DEF n, k, seat
<1>5. ASSUME NEW step \in 0..(k - 1)
      PROVE  at(step) \in 1..n
  <2>1. n \in Nat \ {0} /\ b + step \in Nat
    BY <1>1
  <2>2. (b + step) % n \in 0..(n - 1)
    BY <2>1, Remainder
  <2> DEFINE r == (b + step) % n
  <2> HIDE DEF r
  <2>3. r + 1 \in 1..n
    BY <1>1, <2>2 DEF r
  <2> QED
    BY <2>3 DEF r
<1>6. \A step \in 0..(k - 1) : seat[step] \in Seats(c)
  <2> HIDE DEF at
  <2> QED
    BY <1>3, <1>4, <1>5
<1>7. ASSUME NEW i \in 0..(k - 1), NEW j \in 0..(k - 1), seat[i] = seat[j]
      PROVE  i = j
  <2>1. at(i) = at(j)
    <3> DEFINE p == at(i)
               q == at(j)
    <3>1. p \in 1..n /\ q \in 1..n
      BY <1>5
    <3>2. seat[i] = c.members[c.permutation[p]].account
      BY <1>3
    <3>3. seat[j] = c.members[c.permutation[q]].account
      BY <1>3
    <3> HIDE DEF p, q
    <3>4. c.permutation[p] \in 1..n /\ c.permutation[q] \in 1..n
      BY <1>4, <3>1
    <3>5. c.permutation[p] = c.permutation[q]
      BY <1>4, <1>7, <3>2, <3>3, <3>4
    <3>6. p = q
      BY <1>4, <3>1, <3>5
    <3> QED
      BY <3>6 DEF p, q
  <2>2. (b + i) % n = (b + j) % n
    <3>1. n \in Nat \ {0} /\ b + i \in Nat /\ b + j \in Nat
      BY <1>1
    <3>2. (b + i) % n \in Int /\ (b + j) % n \in Int
      BY <3>1, Remainder
    <3> QED
      BY <2>1, <3>2
  <2>3. n \in Nat \ {0} /\ i \in 0..(n - 1) /\ j \in 0..(n - 1)
    BY <1>1
  <2> QED
    BY <2>2, <2>3, RoundTrip
<1> QED
  BY <1>1, <1>2, <1>6, <1>7 DEF n, k, seat

\* Members on duty have seats, and as many are as the window is wide.
LEMMA DutyFacts ==
    ASSUME NEW c, Seated(c), NEW b \in Nat
    PROVE  /\ ActiveAt(c, b) \subseteq Seats(c)
           /\ Cardinality(ActiveAt(c, b)) = AtMost(Active, Len(c.members))
<1> DEFINE n == Len(c.members)
           k == AtMost(Active, n)
           seat == [step \in 0..(k - 1) |->
                      c.members[c.permutation[((b + step) % n) + 1]].account]
           I == 0..(k - 1)
<1>1. /\ k \in Nat
      /\ ActiveAt(c, b) = {seat[step] : step \in I}
      /\ \A step \in I : seat[step] \in Seats(c)
      /\ \A i, j \in I : seat[i] = seat[j] => i = j
  BY DutySteps
<1> HIDE DEF seat, k
<1>2. IsFiniteSet(I) /\ Cardinality(I) = k
  <2>1. 0 \in Int /\ k - 1 \in Int /\ (IF 0 > k - 1 THEN 0 ELSE (k - 1) - 0 + 1) = k
    BY <1>1
  <2> QED
    BY <2>1, FS_Interval
<1> HIDE DEF I
<1>3. Cardinality(ActiveAt(c, b)) = Cardinality(I)
  BY <1>1, <1>2, CountImage
<1> QED
  BY <1>1, <1>2, <1>3 DEF k

\* Nobody has two seats, and the window reaches every seat in a round.
LEMMA RosterOf ==
    ASSUME NEW c, Seated(c)
    PROVE  LET size == Len(c.members)
           IN  /\ Cardinality(Seats(c)) = size
               /\ \A b \in 0..EpochBlocks : Cardinality(ActiveAt(c, b)) = AtMost(Active, size)
               /\ \A v \in Seats(c) : size <= EpochBlocks =>
                     \E b \in 0..(EpochBlocks - 1) : IsActiveAt(c, v, b)
<1> DEFINE n == Len(c.members)
           I == 1..n
           named == [i \in I |-> c.members[i].account]
<1>1. /\ n \in Nat /\ c.permutation \in [1..n -> 1..n]
      /\ \A k \in 1..n : \E i \in 1..n : c.permutation[i] = k
      /\ \A i, j \in I : named[i] = named[j] => i = j
      /\ \A i \in I : named[i] = c.members[i].account
  BY DEF Seated, Orders
<1>2. Seats(c) = {c.members[i].account : i \in 1..n}
  BY SeatFacts DEF Seated
<1>3. Cardinality(Seats(c)) = n
  <2>1. IsFiniteSet(I) /\ Cardinality(I) = n
    BY <1>1, FS_Interval
  <2>2. /\ \A i \in I : named[i] \in Seats(c)
        /\ \A v \in Seats(c) : \E i \in I : v = named[i]
    BY <1>1, <1>2
  <2> HIDE DEF named, I, n
  <2>3. Cardinality(Seats(c)) = Cardinality(I)
    BY <1>1, <2>1, <2>2, CountImage
  <2> QED
    BY <2>1, <2>3
<1>4. \A b \in 0..EpochBlocks : Cardinality(ActiveAt(c, b)) = AtMost(Active, n)
  BY DutyFacts, EpochAssumption
<1>5. ASSUME NEW v \in Seats(c), n <= EpochBlocks
      PROVE  \E b \in 0..(EpochBlocks - 1) : IsActiveAt(c, v, b)
  <2>1. PICK k \in 1..n : v = c.members[k].account
    BY <1>2
  <2>2. PICK i \in 1..n : c.permutation[i] = k
    BY <1>1
  <2> DEFINE b == i - 1
  <2>3. b \in Nat /\ b < n /\ b \in 0..(EpochBlocks - 1) /\ n \in Nat \ {0}
    <3>1. n \in Nat /\ EpochBlocks \in Nat /\ n <= EpochBlocks /\ i \in 1..n
      BY <1>1, <1>5, EpochAssumption
    <3> HIDE DEF n
    <3> QED
      BY <3>1
  <2>4. ((b + 0) % n) + 1 = i
    <3>1. b + 0 = b /\ b + 1 = i
      BY <2>3
    <3>2. b % n = b
      <4> HIDE DEF b, n
      <4> QED
        BY <2>3, Remainder
    <3> QED
      BY <3>1, <3>2
  <2>5. 0 \in 0..(AtMost(Active, n) - 1)
    BY <2>3, CommitteeAssumption DEF AtMost
  <2>6. c.members[c.permutation[((b + 0) % n) + 1]].account = v
    BY <2>1, <2>2, <2>4
  <2> HIDE DEF b
  <2>7. v \in ActiveAt(c, b)
    BY <2>5, <2>6 DEF ActiveAt
  <2> QED
    BY <2>3, <2>7 DEF IsActiveAt
<1> QED
  BY <1>3, <1>4, <1>5

----------------------------------------------------------------------------
(* Certificates and the leak. *)

\* The certificate of some members weighs what they weigh.
LEMMA CertificateWeighs ==
    ASSUME NEW c, Seated(c), NEW S, S \subseteq Seats(c), NEW block
    PROVE  CertifiedWeight(CertificateOf(S, block), c) = Heft(c, S)
<1> DEFINE n == Cardinality(S)
           I == 1..n
           g == InOrder(S)
           f == [v \in S |-> SeatWeight(c, v)]
           votes == CertificateOf(S, block).votes
           k == [i \in 1..Len(votes) |-> SeatWeight(c, votes[i].member)]
<1>1. /\ IsFiniteSet(S) /\ S \subseteq Nat
      /\ \A v \in S : SeatWeight(c, v) \in Int
  <2>1. \A v \in Seats(c) : SeatWeight(c, v) \in Scalable /\ v \in Accounts
    BY SeatFacts DEF Seated
  <2>2. Scalable \subseteq Int /\ Accounts \subseteq Nat
    BY CommitteeAssumption DEF Scalable
  <2>3. \A v \in S : SeatWeight(c, v) \in Int /\ v \in Nat
    BY <2>1, <2>2
  <2> QED
    BY <2>3, HeftFacts
<1>2. /\ n \in Nat
      /\ \A i \in I : g[i] \in S
      /\ \A i, j \in I : g[i] = g[j] => i = j
      /\ \A v \in S : \E i \in I : v = g[i]
  <2>1. /\ n \in Nat /\ g \in [1..n -> S]
        /\ \A i, j \in 1..n : g[i] = g[j] => i = j
        /\ {g[i] : i \in 1..n} = S
    BY <1>1, InOrderLists
  <2> HIDE DEF n, g
  <2> QED
    BY <2>1
<1>3. votes = [i \in I |-> Vote(g[i], block)]
  BY DEF CertificateOf
<1>4. Len(votes) = n
  <2> HIDE DEF n, g, votes
  <2> QED
    BY <1>2, <1>3
<1>5. \A i \in I : k[i] = f[g[i]]
  <2>1. \A i \in I : votes[i].member = g[i]
    BY <1>3 DEF Vote
  <2>2. \A i \in I : k[i] = SeatWeight(c, g[i])
    BY <1>4, <2>1
  <2> HIDE DEF k, g, I
  <2> QED
    BY <1>2, <2>2
<1>6. CertifiedWeight(CertificateOf(S, block), c) = SumFunctionOnSet(k, I)
  BY <1>4 DEF CertifiedWeight, SumFunction
<1>7. Heft(c, S) = SumFunctionOnSet(f, S)
  BY DEF Heft
<1>8. IsFiniteSet(I) /\ \A v \in S : f[v] \in Int
  BY <1>1, <1>2, FS_Interval
<1> HIDE DEF I, g, f, k
<1> QED
  BY <1>2, <1>5, <1>6, <1>7, <1>8, SumImage

\* A part of something, scaled by a fraction, is at most the whole.
LEMMA Fraction ==
    ASSUME NEW w \in Nat, NEW d \in Nat \ {0}, NEW r \in 0..d
    PROVE  w * r \in Nat /\ w * r <= w * d /\ (w * r) \div d \in 0..w
<1>1. w * r \in Nat /\ w * d \in Nat /\ w * r <= w * d
  OBVIOUS
<1> DEFINE x == w * r
           q == x \div d
<1>2. q \in Nat /\ d * q <= x
  BY <1>1
<1> HIDE DEF q, x
<1>3. d * q <= w * d
  BY <1>1, <1>2 DEF x
<1>4. ~(q >= w + 1)
  <2> SUFFICES ASSUME q >= w + 1 PROVE FALSE
    OBVIOUS
  <2>1. d * q >= d * (w + 1)
    BY <1>2
  <2>2. d * (w + 1) = w * d + d
    OBVIOUS
  <2>3. d * q \in Int /\ w * d \in Int
    BY <1>2
  <2> QED
    BY <1>3, <2>1, <2>2, <2>3
<1>5. q \in 0..w
  BY <1>2, <1>4
<1> QED
  BY <1>1, <1>5 DEF q, x

\* The leak takes weight away only, and nothing within the grace.
LEMMA EffectiveIs ==
    ASSUME NEW c, Seated(c), NEW counts \in Counters, NEW v \in Seats(c)
    PROVE  /\ EffectiveWeight(counts, c, v) \in 0..SeatWeight(c, v)
           /\ counts[v] <= LeakGrace => EffectiveWeight(counts, c, v) = SeatWeight(c, v)
<1> DEFINE w == SeatWeight(c, v)
           r == Remaining(counts, v)
           e == EffectiveWeight(counts, c, v)
<1>1. v \in Accounts /\ w \in Nat \ {0} /\ w * LeakPeriod <= MaxWeight
  BY SeatFacts DEF Seated, Scalable
<1>2. LeakPeriod \in Nat \ {0} /\ LeakGrace \in Nat /\ counts[v] \in Nat
  BY <1>1, LeakAssumption DEF Counters
<1>3. r \in 0..LeakPeriod /\ (counts[v] <= LeakGrace => r = LeakPeriod)
  BY <1>2 DEF Remaining, Minus
<1>4. e = AtMost(w * r, MaxWeight) \div LeakPeriod
  BY <1>2 DEF EffectiveWeight, Scaled
<1> HIDE DEF w, r, e
<1>5. /\ w * r \in Nat /\ w * r <= w * LeakPeriod
      /\ (w * r) \div LeakPeriod \in 0..w
      /\ (w * LeakPeriod) \div LeakPeriod = w
  BY <1>1, <1>2, <1>3, Fraction, Quotient
<1>6. AtMost(w * r, MaxWeight) = w * r
  <2>1. w * LeakPeriod \in Nat
    BY <1>1, <1>2
  <2> HIDE DEF w
  <2> QED
    BY <1>1, <1>5, <2>1, CommitteeAssumption DEF AtMost
<1>7. e = (w * r) \div LeakPeriod
  BY <1>4, <1>6
<1>8. r = LeakPeriod => e = w
  BY <1>5, <1>7
<1>9. e \in 0..w
  BY <1>5, <1>7
<1> QED
  BY <1>3, <1>8, <1>9 DEF w, e

\* So any members weigh at most what they weighed at the draw.
LEMMA EffectiveHeft ==
    ASSUME NEW c, Seated(c), NEW counts \in Counters, NEW S, S \subseteq Seats(c)
    PROVE  LET e == TotalWeight([v \in S |-> EffectiveWeight(counts, c, v)])
           IN  /\ e \in Nat /\ e <= Heft(c, S)
               /\ (\A v \in S : counts[v] <= LeakGrace) => e = Heft(c, S)
<1> DEFINE f == [v \in S |-> SeatWeight(c, v)]
           g == [v \in S |-> EffectiveWeight(counts, c, v)]
           e == TotalWeight(g)
           sum == SumFunctionOnSet(g, S)
<1>1. IsFiniteSet(S) /\ Heft(c, S) \in 0..MaxWeight
  BY HeftFacts
<1>2. \A v \in Seats(c) : SeatWeight(c, v) \in Nat
  BY SeatFacts DEF Seated, Scalable
<1>3. \A v \in S : /\ EffectiveWeight(counts, c, v) \in 0..SeatWeight(c, v)
                   /\ counts[v] <= LeakGrace =>
                        EffectiveWeight(counts, c, v) = SeatWeight(c, v)
  BY EffectiveIs
<1>4. /\ \A v \in S : g[v] \in Nat /\ f[v] \in Nat /\ g[v] <= f[v]
      /\ \A v \in S : counts[v] <= LeakGrace => g[v] = f[v]
  BY <1>2, <1>3
<1>5. e = IF sum <= MaxWeight THEN sum ELSE 0
  BY DEF TotalWeight, SumFunction
<1>6. Heft(c, S) = SumFunctionOnSet(f, S)
  BY DEF Heft
<1> HIDE DEF f, g, e
<1>7. sum \in Nat /\ sum <= SumFunctionOnSet(f, S)
  <2>1. \A v \in S : g[v] \in Int /\ f[v] \in Int /\ g[v] <= f[v]
    BY <1>4
  <2> QED
    BY <1>1, <1>4, <2>1, SumNat, SumMonotone
<1>8. (\A v \in S : counts[v] <= LeakGrace) => sum = SumFunctionOnSet(f, S)
  <2> SUFFICES ASSUME \A v \in S : counts[v] <= LeakGrace
               PROVE  sum = SumFunctionOnSet(f, S)
    OBVIOUS
  <2>1. \A v \in S : g[v] = f[v]
    BY <1>4
  <2> QED
    BY <1>1, <2>1, SumEqual
<1> HIDE DEF sum
<1>9. e = sum
  BY <1>1, <1>5, <1>6, <1>7, CommitteeAssumption
<1> QED
  BY <1>6, <1>7, <1>8, <1>9 DEF e, g

\* Observing keeps the counters counters, and clears those that signed.
LEMMA ObserveCounts ==
    ASSUME NEW counts \in Counters, NEW duty, NEW voters, voters \subseteq duty
    PROVE  /\ Observe(counts, duty, voters) \in Counters
           /\ \A v \in voters \cap Accounts : Observe(counts, duty, voters)[v] = 0
<1>1. MaxMissed \in Nat
  BY LeakAssumption
<1>2. ASSUME NEW v \in Accounts
      PROVE  /\ Observe(counts, duty, voters)[v] \in 0..MaxMissed
             /\ v \in voters => Observe(counts, duty, voters)[v] = 0
  <2>1. counts[v] \in 0..MaxMissed
    BY DEF Counters
  <2>2. AtMost(counts[v] + 1, MaxMissed) \in 0..MaxMissed /\ 0 \in 0..MaxMissed
    BY <1>1, <2>1 DEF AtMost
  <2> QED
    BY <2>1, <2>2 DEF Observe
<1> QED
  BY <1>2 DEF Observe, Counters

----------------------------------------------------------------------------
(* The invariant. *)

\* What a side's block says of the weight that signed it.
Settled(block, duty, c) ==
    /\ block.voters \subseteq duty
    /\ block.certified => ExceedsTwoThirds(Heft(c, block.voters), Heft(c, duty))
    /\ block.certified => block.restored
    /\ block.restored /\ block.silence <= LeakGrace
          => ExceedsTwoThirds(Heft(c, block.voters), Heft(c, duty))

\* The committee is one a draw left, from a set that was entered properly, and
\* every side's block was settled by the members then on duty.
FinalityInv ==
    /\ TypeOK
    /\ Entered(validators)
    /\ Seated(committee)
    /\ slot = 0 => \A s \in Sides : last[s] = NoBlock
    /\ slot > 0 => \A s \in Sides : Settled(last[s], ActiveAt(committee, slot - 1), committee)

\* More than two thirds of a weight is more than two thirds of a smaller one.
LEMMA ThresholdEases ==
    ASSUME NEW part \in Nat, NEW total \in Nat, NEW less \in Nat, less <= total,
           ExceedsTwoThirds(part, total)
    PROVE  ExceedsTwoThirds(part, less)
BY CommitteeAssumption DEF ExceedsTwoThirds

\* Whatever was missed before, the block of a side is settled.
LEMMA BlockSettles ==
    ASSUME FinalityInv, slot < EpochBlocks, NEW s \in Sides
    PROVE  LET duty == ActiveAt(committee, slot)
               block == BlockOf(s, duty)
           IN  /\ Settled(block, duty, committee)
               /\ block.voters \subseteq Accounts /\ block.silence \in 0..MaxMissed
               /\ Observe(missed[s], duty, block.voters) \in Counters
<1> DEFINE duty == ActiveAt(committee, slot)
           voters == {v \in duty : CanVote(s, v)}
           observed == Observe(missed[s], duty, voters)
           silences == {0} \cup {observed[v] : v \in Accounts}
           block == BlockOf(s, duty)
           full == Heft(committee, duty)
           signed == Heft(committee, voters)
           counted == EffectiveSignedWeight(observed, committee, slot, voters)
           standing == EffectiveActiveWeight(observed, committee, slot)
<1>1. Seated(committee) /\ missed[s] \in Counters /\ slot \in Nat
  BY EpochAssumption DEF FinalityInv, TypeOK
<1>2. duty \subseteq Seats(committee)
  BY <1>1, DutyFacts
<1>3. Seats(committee) \subseteq Accounts
  BY <1>1, SeatFacts DEF Seated
<1>4. /\ block.voters = voters /\ block.silence = Max(silences)
      /\ block.certified = Finalises(CertificateOf(voters, s), s, committee, slot, validators)
      /\ block.restored = RestoresFinality(observed, committee, slot, voters)
  BY DEF BlockOf
<1>5. voters \subseteq duty
  OBVIOUS
<1> HIDE DEF duty, voters, observed, block
<1>6. observed \in Counters /\ \A v \in voters \cap Accounts : observed[v] = 0
  BY <1>1, <1>5, ObserveCounts DEF observed
<1>7. voters \subseteq Seats(committee) /\ voters \subseteq Accounts
  BY <1>2, <1>3, <1>5
<1>8. /\ full \in Nat /\ signed \in Nat
      /\ ActiveWeightAt(committee, slot) = full
  <2>1. full \in 0..MaxWeight /\ signed \in 0..MaxWeight
    BY <1>1, <1>2, <1>7, HeftFacts
  <2>2. TotalWeight([v \in duty |-> SeatWeight(committee, v)]) = full
    BY <1>1, <1>2, HeftFacts
  <2>3. full \in Nat /\ signed \in Nat
    BY <2>1
  <2>4. ActiveWeightAt(committee, slot) = full
    BY <2>2 DEF ActiveWeightAt, duty
  <2> QED
    BY <2>3, <2>4
<1>9. /\ standing \in Nat /\ standing <= full
      /\ (\A v \in duty : observed[v] <= LeakGrace) => standing = full
  BY <1>1, <1>2, <1>6, EffectiveHeft DEF EffectiveActiveWeight, duty
<1>10. counted = signed
  <2>1. duty \cap voters = voters
    BY <1>5
  <2>2. \A v \in voters : observed[v] <= LeakGrace
    <3>1. LeakGrace \in Nat
      BY LeakAssumption
    <3>2. \A v \in voters : observed[v] = 0
      BY <1>6, <1>7
    <3> QED
      BY <3>1, <3>2
  <2>3. counted = TotalWeight([v \in voters |-> EffectiveWeight(observed, committee, v)])
    BY <2>1 DEF EffectiveSignedWeight, duty
  <2> QED
    BY <1>1, <1>6, <1>7, <2>2, <2>3, EffectiveHeft
<1>11. block.certified => ExceedsTwoThirds(signed, full)
  <2>1. CertifiedWeight(CertificateOf(voters, s), committee) = signed
    BY <1>1, <1>7, CertificateWeighs
  <2> QED
    BY <1>4, <1>8, <2>1 DEF Finalises
<1>12. block.restored <=> ExceedsTwoThirds(signed, standing)
  BY <1>4, <1>10 DEF RestoresFinality
<1>13. /\ Max(silences) \in 0..MaxMissed
       /\ \A v \in Accounts : observed[v] <= Max(silences)
  <2>1. MaxMissed \in Nat
    BY LeakAssumption
  <2>2. \A v \in Accounts : observed[v] \in 0..MaxMissed
    BY <1>6 DEF Counters
  <2>3. /\ silences \subseteq 0..MaxMissed /\ silences # {}
        /\ \A v \in Accounts : observed[v] \in silences
    BY <2>1, <2>2
  <2>4. IsFiniteSet(0..MaxMissed) /\ 0..MaxMissed \subseteq Int
    BY <2>1, FS_Interval
  <2> HIDE DEF silences
  <2>5. IsFiniteSet(silences) /\ silences \subseteq Int
    BY <2>3, <2>4, FS_Subset
  <2>6. Max(silences) \in silences /\ \A n \in silences : n <= Max(silences)
    BY <2>3, <2>5, MaxIsLargest
  <2> QED
    BY <2>3, <2>6
<1> HIDE DEF full, signed, counted, standing, silences
<1>14. block.certified => block.restored
  BY <1>8, <1>9, <1>11, <1>12, ThresholdEases
<1>15. block.restored /\ block.silence <= LeakGrace => ExceedsTwoThirds(signed, full)
  <2> SUFFICES ASSUME block.restored, block.silence <= LeakGrace
               PROVE  ExceedsTwoThirds(signed, full)
    OBVIOUS
  <2>1. ASSUME NEW v \in duty
        PROVE  observed[v] <= LeakGrace
    <3>1. v \in Accounts
      BY <1>2, <1>3
    <3> DEFINE n == observed[v]
               m == Max(silences)
    <3>2. n \in Int /\ m \in Int /\ n <= m /\ m <= LeakGrace /\ LeakGrace \in Int
      BY <1>4, <1>6, <1>13, <3>1, LeakAssumption DEF Counters
    <3> HIDE DEF n, m
    <3>3. n <= LeakGrace
      BY <3>2
    <3> QED
      BY <3>3 DEF n
  <2>2. standing = full
    BY <1>9, <2>1
  <2> QED
    BY <1>12, <2>2
<1>16. Settled(block, duty, committee)
  BY <1>4, <1>5, <1>11, <1>14, <1>15 DEF Settled, signed, full
<1> QED
  BY <1>4, <1>6, <1>7, <1>13, <1>16 DEF duty, block, observed

\* A committee's seats have the weights its type asks for.
LEMMA SeatedWeights ==
    ASSUME NEW c, Seated(c)
    PROVE  \A seat \in ToSet(c.members) : seat.weight \in Weights \ {0}
<1> DEFINE m == c.members
           R == [account : Accounts, weight : Scalable]
<1>1. m \in Seq(R)
  BY DEF Seated
<1>2. Scalable \subseteq Weights \ {0}
  BY CommitteeAssumption DEF Scalable, Weights
<1>3. \A x \in R : x.weight \in Scalable
  OBVIOUS
<1> HIDE DEF m, R
<1>4. \A x \in ToSet(m) : x \in R
  BY <1>1 DEF ToSet
<1> QED
  BY <1>2, <1>3, <1>4 DEF m

\* The invariant holds at the start.
LEMMA FinalityInit == Init => FinalityInv
<1> SUFFICES ASSUME Init PROVE FinalityInv
  OBVIOUS
<1>1. Entered(Genesis)
  BY EpochAssumption DEF Entered
<1>2. Entered(validators) /\ Seated(committee)
  BY <1>1, DrawSeats DEF Init
<1>3. slot = 0 /\ \A s \in Sides : last[s] = NoBlock
  BY DEF Init
<1>4. TypeOK
  <2>1. slot \in 0..EpochBlocks /\ moves \in 0..MaxMoves
    BY EpochAssumption DEF Init
  <2>2. heard \in [Accounts -> SUBSET Sides]
    BY DEF Init
  <2>3. missed \in [Sides -> Counters]
    BY LeakAssumption DEF Init, Counters, Cleared
  <2>4. \A s \in Sides : last[s].voters \subseteq Accounts /\ last[s].silence \in 0..MaxMissed
    BY <1>3, LeakAssumption DEF NoBlock
  <2>5. \A seat \in ToSet(committee.members) : seat.weight \in Weights \ {0}
    BY <1>2, SeatedWeights
  <2> QED
    BY <2>1, <2>2, <2>3, <2>4, <2>5 DEF TypeOK
<1> QED
  BY <1>2, <1>3, <1>4 DEF FinalityInv

\* A round settles a block on every side.
LEMMA RoundKeeps ==
    ASSUME FinalityInv, Round
    PROVE  FinalityInv'
<1> DEFINE duty == ActiveAt(committee, slot)
           block(s) == BlockOf(s, duty)
<1>1. /\ slot < EpochBlocks /\ slot \in 0..EpochBlocks /\ EpochBlocks \in Nat
      /\ slot' = slot + 1
      /\ validators' = validators /\ committee' = committee
      /\ heard' = heard /\ moves' = moves
  BY EpochAssumption DEF Round, FinalityInv, TypeOK
<1>2. \A s \in Sides : /\ Settled(block(s), duty, committee)
                       /\ block(s).voters \subseteq Accounts
                       /\ block(s).silence \in 0..MaxMissed
                       /\ Observe(missed[s], duty, block(s).voters) \in Counters
  BY <1>1, BlockSettles
<1>3. /\ last' = [s \in Sides |-> block(s)]
      /\ missed' = [s \in Sides |->
                      IF IsFinal(block(s)) THEN Cleared
                      ELSE Observe(missed[s], duty, block(s).voters)]
  BY DEF Round
<1> HIDE DEF block
<1>4. Cleared \in Counters
  BY LeakAssumption DEF Counters, Cleared
<1>5. missed' \in [Sides -> Counters]
  BY <1>2, <1>3, <1>4
<1>6. \A s \in Sides : last'[s] = block(s)
  BY <1>3
<1>7. slot' \in 0..EpochBlocks /\ slot' > 0 /\ slot' - 1 = slot
  BY <1>1
<1>8. TypeOK'
  <2>1. \A s \in Sides : last'[s].voters \subseteq Accounts /\ last'[s].silence \in 0..MaxMissed
    BY <1>2, <1>6
  <2> QED
    BY <1>1, <1>5, <1>7, <2>1 DEF FinalityInv, TypeOK
<1>9. \A s \in Sides : Settled(last'[s], ActiveAt(committee', slot' - 1), committee')
  BY <1>1, <1>2, <1>6, <1>7
<1>10. Entered(validators)' /\ Seated(committee)'
  BY <1>1 DEF FinalityInv
<1>11. ~(slot' = 0)
  BY <1>1
<1> QED
  BY <1>8, <1>9, <1>10, <1>11 DEF FinalityInv

\* A new epoch seats a new committee.
LEMMA NewEpochKeeps ==
    ASSUME FinalityInv, NewEpoch
    PROVE  FinalityInv'
<1>1. /\ slot' = 0 /\ last' = [s \in Sides |-> NoBlock]
      /\ validators' = validators /\ heard' = heard /\ missed' = missed /\ moves' = moves
  BY DEF NewEpoch
<1>2. Entered(validators)' /\ Seated(committee)'
  <2>1. PICK seed \in Seeds : committee' = Draw(validators, seed)
    BY DEF NewEpoch
  <2>2. Entered(validators)
    BY DEF FinalityInv
  <2>3. Seated(Draw(validators, seed))
    BY <2>2, DrawSeats
  <2> QED
    BY <1>1, <2>1, <2>2, <2>3
<1>3. TypeOK'
  <2>1. slot' \in 0..EpochBlocks
    BY <1>1, EpochAssumption
  <2>2. \A s \in Sides : last'[s].voters \subseteq Accounts /\ last'[s].silence \in 0..MaxMissed
    BY <1>1, LeakAssumption DEF NoBlock
  <2>3. (\A seat \in ToSet(committee.members) : seat.weight \in Weights \ {0})'
    BY <1>2, SeatedWeights
  <2> QED
    BY <1>1, <2>1, <2>2, <2>3 DEF FinalityInv, TypeOK
<1>4. \A s \in Sides : last'[s] = NoBlock
  BY <1>1
<1>5. ~(slot' > 0)
  BY <1>1
<1> QED
  BY <1>2, <1>3, <1>4, <1>5 DEF FinalityInv

\* What happens around the blocks changes no block and no seat.
LEMMA EnvironmentKeeps ==
    ASSUME FinalityInv, Environment
    PROVE  FinalityInv'
<1>1. PICK v \in Accounts : Reconnect(v) \/ Leave(v) \/ Join(v)
  BY DEF Environment
<1>2. /\ committee' = committee /\ slot' = slot /\ missed' = missed /\ last' = last
  BY <1>1 DEF Reconnect, Leave, Join
<1>3. moves' \in 0..MaxMoves
  BY <1>1, EpochAssumption DEF Reconnect, Leave, Join, Move, FinalityInv, TypeOK
<1>4. heard' \in [Accounts -> SUBSET Sides]
  <2>1. heard \in [Accounts -> SUBSET Sides]
    BY DEF FinalityInv, TypeOK
  <2>2. CASE Reconnect(v)
    <3>1. PICK where \in SUBSET Sides : heard' = [heard EXCEPT ![v] = where]
      BY <2>2 DEF Reconnect
    <3> QED
      BY <2>1, <3>1
  <2>3. CASE Leave(v) \/ Join(v)
    BY <2>1, <2>3 DEF Leave, Join
  <2> QED
    BY <1>1, <2>2, <2>3
<1>5. Entered(validators)'
  <2>1. Entered(validators)
    BY DEF FinalityInv
  <2>2. CASE Reconnect(v)
    BY <2>1, <2>2 DEF Reconnect, Entered
  <2>3. CASE Leave(v)
    <3>1. validators' = [validators EXCEPT ![v] = Absent]
      BY <2>3 DEF Leave
    <3> QED
      BY <2>1, <3>1 DEF Entered, IsKnown
  <2>4. CASE Join(v)
    <3>1. PICK bond \in Bonds :
             validators' = [validators EXCEPT ![v] = Validator(bond, MultiplierOne, v)]
      BY <2>4 DEF Join
    <3> DEFINE record == Validator(bond, MultiplierOne, v)
    <3>2. record.bond \in Affordable /\ record.multiplier \in MultiplierOne..MultiplierMax
      BY EpochAssumption, CommitteeAssumption DEF Validator, Multiplier, AtMost
    <3> HIDE DEF record
    <3> QED
      BY <2>1, <3>1, <3>2 DEF Entered, IsKnown, record
  <2> QED
    BY <1>1, <2>2, <2>3, <2>4
<1>6. TypeOK'
  BY <1>2, <1>3, <1>4 DEF FinalityInv, TypeOK
<1> QED
  BY <1>2, <1>5, <1>6 DEF FinalityInv

\* Every step keeps the invariant.
LEMMA FinalityStep == FinalityInv /\ [Next]_vars => FinalityInv'
<1> SUFFICES ASSUME FinalityInv, [Next]_vars PROVE FinalityInv'
  OBVIOUS
<1>1. CASE Round
  BY <1>1, RoundKeeps
<1>2. CASE NewEpoch
  BY <1>2, NewEpochKeeps
<1>3. CASE Environment
  BY <1>3, EnvironmentKeeps
<1>4. CASE UNCHANGED vars
  BY <1>4 DEF vars, FinalityInv, TypeOK
<1> QED
  BY <1>1, <1>2, <1>3, <1>4 DEF Next

\* So it holds throughout.
LEMMA FinalityHolds == Spec => []FinalityInv
BY FinalityInit, FinalityStep, PTL DEF Spec

----------------------------------------------------------------------------
(* What follows. *)

\* Counters, silences, slots and seat weights stay within their types, whatever
\* the seeds draw and whoever comes and goes.
THEOREM FinalityTypeCorrect == Spec => []TypeOK
<1>1. FinalityInv => TypeOK
  BY DEF FinalityInv
<1> QED
  BY <1>1, FinalityHolds, PTL

\* Committee::draw and active_at: no candidate has two seats, every duty has as
\* many distinct members as the window is wide, and every seat comes on duty
\* within an epoch long enough, for every seed and every validator set.
THEOREM RosterFair == Spec => []RosterIsFair
<1>1. FinalityInv => RosterIsFair
  <2> SUFFICES ASSUME FinalityInv PROVE RosterIsFair
    OBVIOUS
  <2>1. Seated(committee)
    BY DEF FinalityInv
  <2> QED
    BY <2>1, RosterOf DEF RosterIsFair
<1> QED
  BY <1>1, FinalityHolds, PTL

\* Of two sets of members that each exceed two thirds of the weight on duty, the
\* overlap exceeds one third.
LEMMA QuorumsOverlap ==
    ASSUME NEW c, Seated(c), NEW D, D \subseteq Seats(c),
           NEW S, S \subseteq D, NEW T, T \subseteq D,
           ExceedsTwoThirds(Heft(c, S), Heft(c, D)),
           ExceedsTwoThirds(Heft(c, T), Heft(c, D))
    PROVE  3 * Heft(c, S \cap T) > Heft(c, D)
<1> DEFINE d == Heft(c, D)
           s == Heft(c, S)
           t == Heft(c, T)
           union == Heft(c, S \cup T)
           overlap == Heft(c, S \cap T)
<1>1. s + t = union + overlap
  BY HeftOverlaps
<1>2. union <= d
  BY HeftGrows
<1>3. d \in Int /\ s \in Int /\ t \in Int /\ union \in Int /\ overlap \in Int
  <2>1. /\ S \subseteq Seats(c) /\ T \subseteq Seats(c)
        /\ S \cup T \subseteq Seats(c) /\ S \cap T \subseteq Seats(c)
    OBVIOUS
  <2>2. d \in 0..MaxWeight
    BY HeftFacts
  <2>3. s \in 0..MaxWeight
    BY <2>1, HeftFacts
  <2>4. t \in 0..MaxWeight
    BY <2>1, HeftFacts
  <2>5. union \in 0..MaxWeight
    BY <2>1, HeftFacts
  <2>6. overlap \in 0..MaxWeight
    BY <2>1, HeftFacts
  <2> QED
    BY <2>2, <2>3, <2>4, <2>5, <2>6
<1>4. 3 * s > 2 * d /\ 3 * t > 2 * d
  BY DEF ExceedsTwoThirds
<1> HIDE DEF d, s, t, union, overlap
<1>5. 3 * overlap > d
  BY <1>1, <1>2, <1>3, <1>4
<1> QED
  BY <1>5 DEF d, overlap

\* Certificate::finalises: two blocks of one slot are both certified only if more
\* than a third of the weight on duty signed both, in every committee any draw
\* makes, at every slot of its epoch.
THEOREM ConflictsNeedDoubleVoters == Spec => []ConflictNeedsDoubleVoters
<1>1. FinalityInv => ConflictNeedsDoubleVoters
  <2> SUFFICES ASSUME FinalityInv, NEW s \in Sides, NEW t \in Sides,
                      last[s].certified, last[t].certified
               PROVE  3 * TotalWeight([v \in last[s].voters \cap last[t].voters |->
                                          SeatWeight(committee, v)])
                        > ActiveWeightAt(committee, slot - 1)
    BY DEF ConflictNeedsDoubleVoters
  <2> DEFINE D == ActiveAt(committee, slot - 1)
             S == last[s].voters
             T == last[t].voters
  <2>1. Seated(committee) /\ slot \in Nat
    BY EpochAssumption DEF FinalityInv, TypeOK
  <2>2. slot # 0
    BY DEF FinalityInv, NoBlock
  <2>3. slot > 0 /\ slot - 1 \in Nat
    BY <2>1, <2>2
  <2>4. Settled(last[s], D, committee) /\ Settled(last[t], D, committee)
    BY <2>3 DEF FinalityInv
  <2>5. D \subseteq Seats(committee)
    BY <2>1, <2>3, DutyFacts
  <2>6. /\ S \subseteq D /\ T \subseteq D
        /\ ExceedsTwoThirds(Heft(committee, S), Heft(committee, D))
        /\ ExceedsTwoThirds(Heft(committee, T), Heft(committee, D))
    BY <2>4 DEF Settled
  <2> HIDE DEF S, T
  <2>7. ActiveWeightAt(committee, slot - 1) = Heft(committee, D)
    BY <2>1, <2>5, HeftFacts DEF ActiveWeightAt
  <2> HIDE DEF D
  <2>8. 3 * Heft(committee, S \cap T) > Heft(committee, D)
    BY <2>1, <2>5, <2>6, QuorumsOverlap
  <2> DEFINE U == S \cap T
  <2>9. U \subseteq Seats(committee)
    BY <2>5, <2>6
  <2>10. TotalWeight([v \in U |-> SeatWeight(committee, v)]) = Heft(committee, U)
    <3> HIDE DEF U
    <3> QED
      BY <2>1, <2>9, HeftFacts
  <2> QED
    BY <2>7, <2>8, <2>10 DEF S, T
<1> QED
  BY <1>1, FinalityHolds, PTL

\* leak.rs: the leak's test finalises whatever a certificate does.
THEOREM LeakHelpsOnly == Spec => []LeakNeverHinders
<1>1. FinalityInv => LeakNeverHinders
  <2> SUFFICES ASSUME FinalityInv, NEW s \in Sides, last[s].certified
               PROVE  last[s].restored
    BY DEF LeakNeverHinders
  <2>1. slot \in Nat /\ slot # 0
    BY EpochAssumption DEF FinalityInv, TypeOK, NoBlock
  <2>2. slot > 0
    BY <2>1
  <2> QED
    BY <2>2 DEF FinalityInv, Settled
<1> QED
  BY <1>1, FinalityHolds, PTL

\* leak.rs: two sides are both final without a double signer only when some
\* member was silent beyond the grace, however many sides there are.
THEOREM SplitsOutlastGrace == Spec => []SplitOutlastsGrace
<1>1. FinalityInv => SplitOutlastsGrace
  <2> SUFFICES ASSUME FinalityInv,
                      \A s \in Sides : IsFinal(last[s]),
                      \A s, t \in Sides : s # t => last[s].voters \cap last[t].voters = {},
                      \A s \in Sides : ~(last[s].silence > LeakGrace)
               PROVE  FALSE
    BY DEF SplitOutlastsGrace
  <2>1. PICK s \in Sides, t \in Sides : s # t
    BY SidesAssumption
  <2> DEFINE D == ActiveAt(committee, slot - 1)
             S == last[s].voters
             T == last[t].voters
  <2>2. Seated(committee) /\ slot \in Nat
    BY EpochAssumption DEF FinalityInv, TypeOK
  <2>3. slot # 0
    BY <2>1 DEF FinalityInv, NoBlock, IsFinal
  <2>4. slot > 0 /\ slot - 1 \in Nat
    BY <2>2, <2>3
  <2>5. Settled(last[s], D, committee) /\ Settled(last[t], D, committee)
    BY <2>4 DEF FinalityInv
  <2>6. D \subseteq Seats(committee)
    BY <2>2, <2>4, DutyFacts
  <2>7. last[s].silence <= LeakGrace /\ last[t].silence <= LeakGrace
    BY LeakAssumption DEF FinalityInv, TypeOK
  <2>8. /\ S \subseteq D /\ T \subseteq D
        /\ ExceedsTwoThirds(Heft(committee, S), Heft(committee, D))
        /\ ExceedsTwoThirds(Heft(committee, T), Heft(committee, D))
    BY <2>5, <2>7 DEF Settled, IsFinal
  <2>9. S \cap T = {}
    BY <2>1
  <2> HIDE DEF S, T, D
  <2>10. 3 * Heft(committee, S \cap T) > Heft(committee, D)
    BY <2>2, <2>6, <2>8, QuorumsOverlap
  <2>11. Heft(committee, S \cap T) = 0
    BY <2>9, SumEmpty DEF Heft
  <2>12. Heft(committee, D) \in 0..MaxWeight
    BY <2>2, <2>6, HeftFacts
  <2>13. 3 * 0 > Heft(committee, D)
    BY <2>10, <2>11
  <2> QED
    BY <2>12, <2>13
<1> QED
  BY <1>1, FinalityHolds, PTL

\* Ascending votes are of different members, first to last.
LEMMA AscendingIsDistinct ==
    ASSUME NEW votes, Len(votes) \in Nat, Ascending(votes),
           \A i \in 1..Len(votes) : votes[i].member \in Nat
    PROVE  \A i, j \in 1..Len(votes) : votes[i].member = votes[j].member => i = j
<1> DEFINE n == Len(votes)
           m == [i \in 1..n |-> votes[i].member]
           B == {j \in 1..n : \E i \in 1..n : i < j /\ ~(m[i] < m[j])}
<1>1. /\ n \in Nat /\ \A i \in 1..n : m[i] \in Nat /\ m[i] = votes[i].member
      /\ \A i \in 2..n : m[i - 1] < m[i]
  BY DEF Ascending
<1> HIDE DEF n, m
<1>2. B = {}
  <2> SUFFICES ASSUME B # {} PROVE FALSE
    OBVIOUS
  <2> DEFINE j == Min(B)
  <2>1. B \subseteq 1..n /\ IsFiniteSet(1..n) /\ 1..n \subseteq Int
    BY <1>1, FS_Interval
  <2>2. IsFiniteSet(B) /\ B \subseteq Int
    BY <2>1, FS_Subset
  <2>3. j \in B /\ \A k \in B : j <= k
    BY <2>2, MinIsSmallest
  <2> HIDE DEF j
  <2>4. PICK i \in 1..n : i < j /\ ~(m[i] < m[j])
    BY <2>3
  <2>5. j \in 1..n
    BY <2>3
  <2>6. j \in 2..n /\ j - 1 \in 1..n /\ i <= j - 1
    BY <1>1, <2>4, <2>5
  <2>7. m[j - 1] < m[j]
    BY <1>1, <2>6
  <2>8. CASE i = j - 1
    BY <2>4, <2>7, <2>8
  <2>9. CASE i # j - 1
    <3>1. i < j - 1
      BY <1>1, <2>5, <2>6, <2>9
    <3>2. ~(j <= j - 1)
      BY <1>1, <2>5
    <3>3. j - 1 \notin B
      BY <2>3, <3>2
    <3>4. m[i] < m[j - 1]
      BY <2>6, <3>1, <3>3
    <3>5. m[i] \in Nat /\ m[j] \in Nat /\ m[j - 1] \in Nat
      BY <1>1, <2>5, <2>6
    <3> QED
      BY <2>4, <2>7, <3>4, <3>5
  <2> QED
    BY <2>8, <2>9
<1>3. \A i, j \in 1..n : i < j => m[i] < m[j]
  BY <1>2
<1>4. ASSUME NEW i \in 1..n, NEW j \in 1..n, m[i] = m[j]
      PROVE  i = j
  <2>1. i \in Nat /\ j \in Nat /\ m[i] \in Nat /\ m[j] \in Nat
    BY <1>1
  <2>2. ~(i < j) /\ ~(j < i)
    BY <1>3, <1>4, <2>1
  <2> QED
    BY <2>1, <2>2
<1> QED
  BY <1>1, <1>4 DEF n

\* However many votes a certificate holds, if they ascend it weighs at most what
\* the members it names weigh.
LEMMA VotesWeighTheirMembers ==
    ASSUME NEW c, Seated(c), NEW S, S \subseteq Seats(c),
           NEW certificate, Len(certificate.votes) \in Nat, Ascending(certificate.votes),
           \A i \in 1..Len(certificate.votes) : certificate.votes[i].member \in S
    PROVE  CertifiedWeight(certificate, c) <= Heft(c, S)
<1> DEFINE votes == certificate.votes
           I == 1..Len(votes)
           g == [i \in I |-> votes[i].member]
           T == {g[i] : i \in I}
           k == [i \in I |-> SeatWeight(c, votes[i].member)]
           f == [v \in T |-> SeatWeight(c, v)]
<1>1. S \subseteq Nat /\ \A v \in S : SeatWeight(c, v) \in Int
  <2>1. \A v \in Seats(c) : SeatWeight(c, v) \in Scalable /\ v \in Accounts
    BY SeatFacts DEF Seated
  <2>2. Scalable \subseteq Int /\ Accounts \subseteq Nat
    BY CommitteeAssumption DEF Scalable
  <2> QED
    BY <2>1, <2>2
<1>2. \A i, j \in I : g[i] = g[j] => i = j
  <2>1. \A i \in 1..Len(votes) : votes[i].member \in Nat
    BY <1>1
  <2>2. \A i, j \in 1..Len(votes) : votes[i].member = votes[j].member => i = j
    <3> HIDE DEF votes
    <3> QED
      BY <2>1, AscendingIsDistinct DEF votes
  <2> QED
    BY <2>2
<1>3. IsFiniteSet(I)
  BY FS_Interval
<1>4. /\ T \subseteq S
      /\ \A i \in I : g[i] \in T
      /\ \A i \in I : k[i] = f[g[i]]
      /\ \A v \in T : \E i \in I : v = g[i]
  OBVIOUS
<1>5. \A v \in T : f[v] \in Int
  BY <1>1
<1>6. CertifiedWeight(certificate, c) = SumFunctionOnSet(k, I)
  BY DEF CertifiedWeight, SumFunction
<1>7. Heft(c, T) = SumFunctionOnSet(f, T)
  BY DEF Heft
<1> HIDE DEF I, g, T, k, f
<1>8. SumFunctionOnSet(k, I) = SumFunctionOnSet(f, T)
  <2>1. /\ \A i \in I : g[i] \in T
        /\ \A i \in I : k[i] = f[g[i]]
        /\ \A v \in T : \E i \in I : v = g[i]
    BY <1>4
  <2> QED
    BY ONLY <1>2, <1>3, <1>5, <2>1, SumImage
<1>9. Heft(c, T) <= Heft(c, S)
  BY <1>4, HeftGrows
<1> QED
  BY <1>6, <1>7, <1>8, <1>9

\* Votes of any number whose true signatures for side s are its voters'.
Truthful(s) ==
    {votes \in Seq([member : Accounts, covers : Sides \cup {Absent}]) :
        \A i \in 1..Len(votes) : votes[i].covers = s => votes[i].member \in last[s].voters}

\* A certificate made of any such votes that verifies weighs at most what the
\* voters weigh.
NoWeightFromVotes ==
    slot > 0 => \A s \in Sides :
        LET signed == TotalWeight([v \in last[s].voters |-> SeatWeight(committee, v)])
        IN  \A votes \in Truthful(s) :
              LET certificate == [block |-> s, votes |-> votes]
              IN  Verifies(certificate, s, committee, slot - 1, validators)
                    => CertifiedWeight(certificate, committee) <= signed

\* A certificate from true signatures cannot outweigh its signers.
LEMMA VerifiedVotesWeigh ==
    ASSUME FinalityInv, slot > 0, NEW s \in Sides,
           NEW certificate, Len(certificate.votes) \in Nat,
           \A i \in 1..Len(certificate.votes) :
              certificate.votes[i].covers = s => certificate.votes[i].member \in last[s].voters,
           Verifies(certificate, s, committee, slot - 1, validators)
    PROVE  CertifiedWeight(certificate, committee)
              <= TotalWeight([v \in last[s].voters |-> SeatWeight(committee, v)])
<1> DEFINE S == last[s].voters
           D == ActiveAt(committee, slot - 1)
<1>1. Seated(committee) /\ slot - 1 \in Nat
  BY EpochAssumption DEF FinalityInv, TypeOK
<1>2. S \subseteq D
  BY DEF FinalityInv, Settled
<1>3. D \subseteq Seats(committee)
  BY <1>1, DutyFacts
<1>4. S \subseteq Seats(committee)
  BY <1>2, <1>3
<1>5. /\ Ascending(certificate.votes)
      /\ \A i \in 1..Len(certificate.votes) : certificate.votes[i].member \in S
  BY DEF Verifies, VoteCounts
<1> HIDE DEF S, D
<1>6. CertifiedWeight(certificate, committee) <= Heft(committee, S)
  BY <1>1, <1>4, <1>5, VotesWeighTheirMembers
<1>7. TotalWeight([v \in S |-> SeatWeight(committee, v)]) = Heft(committee, S)
  BY <1>1, <1>4, HeftFacts
<1> QED
  BY <1>6, <1>7 DEF S

\* Certificate::verify, for votes of any number: repeated, forged, off duty or of
\* members gone from the set, they never count for more than the signers weigh.
THEOREM VotesNeverOutweighSigners == Spec => []NoWeightFromVotes
<1>1. FinalityInv => NoWeightFromVotes
  <2> SUFFICES ASSUME FinalityInv, slot > 0, NEW s \in Sides, NEW votes \in Truthful(s),
                      Verifies([block |-> s, votes |-> votes], s, committee, slot - 1, validators)
               PROVE  CertifiedWeight([block |-> s, votes |-> votes], committee)
                        <= TotalWeight([v \in last[s].voters |-> SeatWeight(committee, v)])
    BY DEF NoWeightFromVotes
  <2> DEFINE certificate == [block |-> s, votes |-> votes]
  <2>1. certificate.votes = votes
    OBVIOUS
  <2>2. /\ Len(votes) \in Nat
        /\ \A i \in 1..Len(votes) : votes[i].covers = s => votes[i].member \in last[s].voters
    BY DEF Truthful
  <2> HIDE DEF certificate
  <2> QED
    BY <2>1, <2>2, VerifiedVotesWeigh DEF certificate
<1> QED
  BY <1>1, FinalityHolds, PTL

\* Certificate::verify: the certificates the runs try are of that kind.
THEOREM NoWeightFabricated == Spec => []NoWeightFromNothing
<1>1. FinalityInv => NoWeightFromNothing
  <2> SUFFICES ASSUME FinalityInv, slot > 0, NEW s \in Sides, NEW votes \in Presentable(s),
                      Verifies([block |-> s, votes |-> votes], s, committee, slot - 1, validators)
               PROVE  CertifiedWeight([block |-> s, votes |-> votes], committee)
                        <= TotalWeight([v \in last[s].voters |-> SeatWeight(committee, v)])
    BY DEF NoWeightFromNothing
  <2>1. PICK w \in [1..2 -> Accounts], n \in 0..2 :
           votes = [i \in 1..n |-> Vote(w[i], IF w[i] \in last[s].voters THEN s ELSE Absent)]
    BY DEF Presentable
  <2>2. Len(votes) = n
    BY <2>1
  <2>3. \A i \in 1..n : votes[i].covers = s => votes[i].member \in last[s].voters
    BY <2>1, SidesAssumption DEF Vote
  <2> DEFINE certificate == [block |-> s, votes |-> votes]
  <2>4. certificate.votes = votes /\ Len(votes) \in Nat
    BY <2>2
  <2> HIDE DEF certificate
  <2> QED
    BY <2>2, <2>3, <2>4, VerifiedVotesWeigh DEF certificate
<1> QED
  BY <1>1, FinalityHolds, PTL

=============================================================================
