----------------------------- MODULE NodeProofs -----------------------------
(***************************************************************************)
(* Proposing, validating and restarting, for any number of nodes, users,   *)
(* validators and blocks.  The invariant says of a node that its state is  *)
(* a function of the line of headers behind its tip, and of a published    *)
(* block that its header follows from its parent and its transactions; so  *)
(* a block means the same to its producer and to every node at its parent. *)
(* Recursive definitions (the schedule, the line, the replay) and the two  *)
(* folds over transactions are each shown to have a function that solves   *)
(* them, and only one; the invariant carries the functions of a tip along, *)
(* one header longer with each block.                                      *)
(***************************************************************************)
EXTENDS Node, SumTheorems

----------------------------------------------------------------------------
(* The emission schedule. *)

\* What the first period emits can be halved as often as the schedule asks.
LEMMA HalvedIs ==
    /\ Halved[0] = FirstPeriod
    /\ \A p \in 0..ShiftWidth : Halved[p] \in Nat
<1> DEFINE Halves(f, n) == f = [p \in 0..n |-> IF p = 0 THEN FirstPeriod ELSE f[p - 1] \div 2]
           B == {n \in 0..ShiftWidth : ~ \E f : Halves(f, n)}
<1>1. ShiftWidth \in Nat /\ FirstPeriod \in Nat
  BY EmissionAssumption
<1>2. B = {}
  <2> SUFFICES ASSUME B # {} PROVE FALSE
    OBVIOUS
  <2> DEFINE n == Min(B)
  <2>1. B \subseteq Int /\ IsFiniteSet(0..ShiftWidth)
    BY <1>1, FS_Interval
  <2>2. IsFiniteSet(B)
    BY <2>1, FS_Subset
  <2> HIDE DEF B
  <2>3. n \in B /\ \A m \in B : n <= m
    BY <2>1, <2>2, MinIsSmallest
  <2> HIDE DEF n
  <2>4. n \in 0..ShiftWidth /\ ~ \E f : Halves(f, n)
    BY <2>3 DEF B
  <2>5. CASE n = 0
    <3> DEFINE f == [p \in 0..0 |-> FirstPeriod]
    <3>1. Halves(f, 0)
      OBVIOUS
    <3> QED
      BY <2>4, <2>5, <3>1
  <2>6. CASE n # 0
    <3>1. n - 1 \in 0..ShiftWidth /\ ~(n <= n - 1)
      BY <1>1, <2>4, <2>6
    <3>2. PICK f : Halves(f, n - 1)
      BY <2>3, <3>1 DEF B
    <3> DEFINE g == [p \in 0..n |-> IF p = n THEN f[n - 1] \div 2 ELSE f[p]]
    <3>3. ASSUME NEW p \in 0..n
          PROVE  g[p] = IF p = 0 THEN FirstPeriod ELSE g[p - 1] \div 2
      <4>1. n \in Nat \ {0}
        BY <1>1, <2>4, <2>6
      <4>2. CASE p = n
        <5>1. p \in 0..n /\ p - 1 \in 0..n /\ p - 1 # n /\ p # 0
          BY <4>1, <4>2
        <5>2. g[p] = f[n - 1] \div 2 /\ g[p - 1] = f[p - 1]
          BY <4>2, <5>1
        <5> QED
          BY <4>2, <5>1, <5>2
      <4>3. CASE p # n
        <5>1. p \in 0..(n - 1)
          BY <4>1, <4>3
        <5>2. f[p] = IF p = 0 THEN FirstPeriod ELSE f[p - 1] \div 2
          BY <3>2, <5>1
        <5>3. p # 0 => g[p - 1] = f[p - 1]
          BY <4>1, <5>1
        <5> QED
          BY <4>3, <5>2, <5>3
      <4> QED
        BY <4>2, <4>3
    <3>4. g = [p \in 0..n |-> g[p]]
      OBVIOUS
    <3> HIDE DEF g
    <3>5. Halves(g, n)
      BY <3>3, <3>4
    <3> QED
      BY <2>4, <3>5
  <2> QED
    BY <2>5, <2>6
<1>3. \E f : Halves(f, ShiftWidth)
  <2>1. ShiftWidth \in 0..ShiftWidth
    BY <1>1
  <2> QED
    BY <1>2, <2>1
<1>4. Halves(Halved, ShiftWidth)
  BY <1>3, Zenon DEF Halved
<1>5. \A p \in 0..ShiftWidth :
         Halved[p] = IF p = 0 THEN FirstPeriod ELSE Halved[p - 1] \div 2
  BY <1>4
<1> HIDE DEF Halves
<1> DEFINE C == {p \in 0..ShiftWidth : Halved[p] \notin Nat}
<1>6. C = {}
  <2> SUFFICES ASSUME C # {} PROVE FALSE
    OBVIOUS
  <2> DEFINE p == Min(C)
  <2>1. C \subseteq Int /\ IsFiniteSet(0..ShiftWidth)
    BY <1>1, FS_Interval
  <2>2. IsFiniteSet(C)
    BY <2>1, FS_Subset
  <2> HIDE DEF C
  <2>3. p \in C /\ \A m \in C : p <= m
    BY <2>1, <2>2, MinIsSmallest
  <2> HIDE DEF p
  <2>4. p \in 0..ShiftWidth /\ Halved[p] \notin Nat
    BY <2>3 DEF C
  <2>5. p # 0
    BY <1>1, <1>5, <2>4
  <2>6. p - 1 \in 0..ShiftWidth /\ ~(p <= p - 1)
    BY <1>1, <2>4, <2>5
  <2>7. Halved[p - 1] \in Nat
    BY <2>3, <2>6 DEF C
  <2>8. Halved[p - 1] \div 2 \in Nat
    BY <2>7
  <2> QED
    BY <1>5, <2>4, <2>5, <2>8
<1> QED
  BY <1>1, <1>5, <1>6

\* What an epoch of a period emits is a natural number.
LEMMA PerEpochIs == \A p \in Nat : PerEpoch(p) \in Nat
<1> SUFFICES ASSUME NEW p \in Nat PROVE PerEpoch(p) \in Nat
  OBVIOUS
<1>1. PeriodEmission(p) \in Nat
  <2>1. p < ShiftWidth => p \in 0..ShiftWidth
    BY EmissionAssumption
  <2> QED
    BY <2>1, HalvedIs, EmissionAssumption DEF PeriodEmission
<1> QED
  BY <1>1, Quotient, EmissionAssumption DEF PerEpoch

\* A number is in one way a multiple of the divisor and a remainder.
LEMMA DivisionIs ==
    ASSUME NEW d \in Nat \ {0}, NEW n \in Nat, NEW q \in Nat, NEW r \in 0..(d - 1),
           n = d * q + r
    PROVE  n \div d = q /\ n % d = r
<1> DEFINE x == n \div d
           y == n % d
<1>1. n = d * x + y /\ x \in Int /\ y \in 0..(d - 1)
  BY SMT
<1> HIDE DEF x, y
<1>2. d * (x - q) = r - y
  BY <1>1
<1>3. CASE x > q
  <2>1. d * (x - q) >= d
    BY <1>1, <1>3
  <2> QED
    BY <1>1, <1>2, <2>1
<1>4. CASE x < q
  <2>1. d * (x - q) <= 0 - d
    BY <1>1, <1>4
  <2> QED
    BY <1>1, <1>2, <2>1
<1>5. CASE x = q
  <2>1. y = r
    BY <1>1, <1>5
  <2> QED
    BY <1>5, <2>1 DEF x, y
<1> QED
  BY <1>1, <1>3, <1>4, <1>5

\* One number more, and what it does to quotient and remainder.
LEMMA DivisionGoesOn ==
    ASSUME NEW d \in Nat \ {0}, NEW n \in Nat
    PROVE  /\ n \div d \in Nat /\ n % d \in 0..(d - 1)
           /\ \/ /\ (n + 1) \div d = n \div d
                 /\ (n + 1) % d = (n % d) + 1
              \/ /\ (n + 1) \div d = (n \div d) + 1
                 /\ (n + 1) % d = 0 /\ n % d = d - 1
<1> DEFINE q == n \div d
           r == n % d
<1>1. n = d * q + r /\ q \in Nat /\ r \in 0..(d - 1)
  BY SMT
<1> HIDE DEF q, r
<1>2. CASE r = d - 1
  <2>1. n + 1 = d * (q + 1) + 0
    BY <1>1, <1>2
  <2>2. q + 1 \in Nat /\ 0 \in 0..(d - 1) /\ n + 1 \in Nat
    BY <1>1
  <2>3. (n + 1) \div d = q + 1 /\ (n + 1) % d = 0
    BY <2>1, <2>2, DivisionIs
  <2> QED
    BY <1>1, <1>2, <2>3 DEF q, r
<1>3. CASE r # d - 1
  <2>1. n + 1 = d * q + (r + 1)
    BY <1>1
  <2>2. r + 1 \in 0..(d - 1) /\ n + 1 \in Nat
    BY <1>1, <1>3
  <2>3. (n + 1) \div d = q /\ (n + 1) % d = r + 1
    BY <1>1, <2>1, <2>2, DivisionIs
  <2> QED
    BY <1>1, <2>3 DEF q, r
<1> QED
  BY <1>2, <1>3

\* A sum over 0..n ends with its last value.
LEMMA SumOfInterval ==
    ASSUME NEW f, NEW n \in Nat, \A i \in 0..n : f[i] \in Int
    PROVE  /\ SumFunctionOnSet(f, 0..n) = f[n] + SumFunctionOnSet(f, 0..(n - 1))
           /\ SumFunctionOnSet(f, 0..(n - 1)) \in Int
<1> DEFINE S == 0..n
           T == 0..(n - 1)
<1>1. IsFiniteSet(S) /\ IsFiniteSet(T)
  BY FS_Interval
<1>2. n \in S /\ S \ {n} = T /\ \A i \in T : f[i] \in Int
  OBVIOUS
<1>3. \A i \in S : f[i] \in Int
  OBVIOUS
<1> HIDE DEF S, T
<1>4. SumFunctionOnSet(f, S) = f[n] + SumFunctionOnSet(f, S \ {n})
  BY <1>1, <1>2, <1>3, SumRemove
<1>5. SumFunctionOnSet(f, T) \in Int
  BY <1>1, <1>2, SumInt
<1> QED
  BY <1>2, <1>4, <1>5 DEF S, T

\* What the epochs up to this one emit together.
Scheduled(epoch) == SumFunction([e \in 0..epoch |-> EmissionForEpoch(e)])

\* The ceiling, audited from the height alone, is what the epochs emit, capped.
LEMMA CeilingIsSchedule ==
    ASSUME NEW epoch \in Nat
    PROVE  /\ Scheduled(epoch) \in Nat
           /\ PermittedThrough(epoch) = IF Scheduled(epoch) <= SupplyCap
                                        THEN Scheduled(epoch) ELSE SupplyCap
<1> DEFINE E == EpochsPerPeriod
           emits == [e \in Nat |-> EmissionForEpoch(e)]
           whole == [p \in Nat |-> PerEpoch(p) * E]
           S(n) == SumFunctionOnSet(emits, 0..n)
           P(n) == SumFunctionOnSet(whole, 0..(n - 1))
           total(n) == P(n \div E) + PerEpoch(n \div E) * ((n % E) + 1)
           B == {n \in 0..epoch : S(n) # total(n)}
<1>1. E \in Nat \ {0} /\ SupplyCap \in Nat
  BY EmissionAssumption
<1>2. \A p \in Nat : PerEpoch(p) \in Nat /\ whole[p] \in Nat /\ whole[p] = PerEpoch(p) * E
  <2> SUFFICES ASSUME NEW p \in Nat
               PROVE  PerEpoch(p) \in Nat /\ PerEpoch(p) * E \in Nat
    OBVIOUS
  <2>1. PerEpoch(p) \in Nat
    BY PerEpochIs
  <2> DEFINE x == PerEpoch(p)
  <2> HIDE DEF x
  <2>2. x \in Nat => x * E \in Nat
    BY <1>1
  <2> QED
    BY <2>1, <2>2 DEF x
<1>3. \A e \in Nat : e \div E \in Nat /\ e % E \in 0..(E - 1)
  BY <1>1, DivisionGoesOn
<1>4. \A e \in Nat : emits[e] = PerEpoch(e \div E) /\ emits[e] \in Nat
  BY <1>2, <1>3 DEF EmissionForEpoch, PeriodOf
<1> HIDE DEF emits, whole
<1>5. \A n \in Nat : /\ S(n) = emits[n] + S(n - 1) /\ S(n - 1) \in Int
                     /\ P(n + 1) = whole[n] + P(n) /\ P(n) \in Int
  <2> SUFFICES ASSUME NEW n \in Nat
               PROVE  /\ S(n) = emits[n] + S(n - 1) /\ S(n - 1) \in Int
                      /\ P(n + 1) = whole[n] + P(n) /\ P(n) \in Int
    OBVIOUS
  <2>1. \A i \in 0..n : emits[i] \in Int /\ whole[i] \in Int
    BY <1>2, <1>4
  <2>2. (n + 1) - 1 = n
    OBVIOUS
  <2>3. S(n) = emits[n] + S(n - 1) /\ S(n - 1) \in Int
    BY <2>1, SumOfInterval
  <2>4. SumFunctionOnSet(whole, 0..n) = whole[n] + P(n) /\ P(n) \in Int
    BY <2>1, SumOfInterval
  <2> QED
    BY <2>2, <2>3, <2>4
<1>6. S(0) = total(0)
  <2>1. 0 \div E = 0 /\ 0 % E = 0
    BY <1>1, DivisionIs
  <2>2. 0..(0 - 1) = {}
    OBVIOUS
  <2>3. S(0) = emits[0] + SumFunctionOnSet(emits, {}) /\ P(0) = SumFunctionOnSet(whole, {})
    <3>1. S(0) = emits[0] + S(0 - 1)
      BY <1>5
    <3> QED
      BY <2>2, <3>1
  <2>4. PerEpoch(0) \in Nat /\ emits[0] = PerEpoch(0)
    BY <1>2, <1>4, <2>1
  <2>5. S(0) = PerEpoch(0) /\ P(0) = 0
    BY <2>3, <2>4, SumEmpty
  <2>6. total(0) = P(0) + PerEpoch(0) * (0 + 1)
    BY <2>1
  <2> QED
    BY <2>4, <2>5, <2>6
<1> HIDE DEF S, P
<1>7. ASSUME NEW n \in Nat, S(n) = total(n)
      PROVE  S(n + 1) = total(n + 1)
  <2> DEFINE q == n \div E
             r == n % E
             u == PerEpoch(q)
             v == PerEpoch(q + 1)
  <2>1. q \in Nat /\ r \in 0..(E - 1) /\ u \in Nat /\ v \in Nat
    <3>1. q \in Nat /\ r \in 0..(E - 1)
      BY <1>3
    <3> HIDE DEF q, r
    <3> QED
      BY <1>2, <3>1
  <2>2. S(n) = P(q) + u * (r + 1)
    BY <1>7
  <2>3. S(n + 1) = PerEpoch((n + 1) \div E) + S(n)
    <3>1. n + 1 \in Nat /\ (n + 1) - 1 = n
      OBVIOUS
    <3>2. S(n + 1) = emits[n + 1] + S(n)
      BY <1>5, <3>1
    <3> QED
      BY <1>4, <3>1, <3>2
  <2>4. P(q) \in Int /\ P(q + 1) = u * E + P(q)
    <3> HIDE DEF q
    <3> QED
      BY <1>2, <1>5, <2>1
  <2>5. \/ (n + 1) \div E = q /\ (n + 1) % E = r + 1
        \/ (n + 1) \div E = q + 1 /\ (n + 1) % E = 0 /\ r = E - 1
    BY <1>1, DivisionGoesOn
  <2>6. CASE (n + 1) \div E = q /\ (n + 1) % E = r + 1
    <3>1. total(n + 1) = P(q) + u * ((r + 1) + 1)
      BY <2>6
    <3>2. S(n + 1) = u + S(n)
      BY <2>3, <2>6
    <3> HIDE DEF q, r, u, v, total
    <3> QED
      BY <2>1, <2>2, <2>4, <3>1, <3>2
  <2>7. CASE (n + 1) \div E = q + 1 /\ (n + 1) % E = 0 /\ r = E - 1
    <3>1. total(n + 1) = P(q + 1) + v * (0 + 1)
      BY <2>7
    <3>2. S(n + 1) = v + S(n)
      BY <2>3, <2>7
    <3>3. r + 1 = E
      BY <1>1, <2>7
    <3> HIDE DEF q, r, u, v, total, E
    <3>4. S(n) = P(q + 1)
      BY <1>1, <2>1, <2>2, <2>4, <3>3
    <3> QED
      BY <1>1, <2>1, <2>4, <3>1, <3>2, <3>4
  <2> QED
    BY <2>5, <2>6, <2>7
<1>8. S(epoch) = total(epoch)
  <2> SUFFICES ASSUME B # {} PROVE FALSE
    OBVIOUS
  <2> HIDE DEF total
  <2> DEFINE n == Min(B)
  <2>1. B \subseteq Int /\ IsFiniteSet(0..epoch)
    BY FS_Interval
  <2>2. IsFiniteSet(B)
    BY <2>1, FS_Subset
  <2> HIDE DEF B
  <2>3. n \in B /\ \A m \in B : n <= m
    BY <2>1, <2>2, MinIsSmallest
  <2> HIDE DEF n
  <2>4. n \in 0..epoch /\ S(n) # total(n)
    BY <2>3 DEF B
  <2>5. n # 0
    BY <1>6, <2>4
  <2>6. n - 1 \in 0..epoch /\ n - 1 \in Nat /\ ~(n <= n - 1) /\ (n - 1) + 1 = n
    BY <2>4, <2>5
  <2>7. S(n - 1) = total(n - 1)
    BY <2>3, <2>6 DEF B
  <2> QED
    BY <1>7, <2>4, <2>6, <2>7
<1>9. Scheduled(epoch) = S(epoch)
  <2> DEFINE f == [e \in 0..epoch |-> EmissionForEpoch(e)]
  <2>1. \A e \in 0..epoch : f[e] = emits[e]
    BY DEF emits
  <2>2. Scheduled(epoch) = SumFunctionOnSet(f, 0..epoch)
    BY DEF Scheduled, SumFunction
  <2>3. IsFiniteSet(0..epoch)
    BY FS_Interval
  <2> HIDE DEF f
  <2> QED
    BY <2>1, <2>2, <2>3, SumEqual DEF S
<1>10. S(epoch) \in Nat
  <2>1. IsFiniteSet(0..epoch) /\ \A e \in 0..epoch : emits[e] \in Nat
    BY <1>4, FS_Interval
  <2> QED
    BY <2>1, SumNat DEF S
<1>11. PermittedThrough(epoch) = IF total(epoch) <= SupplyCap THEN total(epoch) ELSE SupplyCap
  <2> DEFINE last == (epoch \div E) - 1
             f == [p \in 0..last |-> PerEpoch(p) * EpochsPerPeriod]
  <2>1. PermittedThrough(epoch) =
           LET t == SumFunctionOnSet(f, 0..last) + PerEpoch(epoch \div E) * ((epoch % E) + 1)
           IN  IF t <= SupplyCap THEN t ELSE SupplyCap
    BY DEF PermittedThrough, PeriodOf, SumFunction
  <2>2. \A p \in 0..last : f[p] = whole[p]
    BY <1>2
  <2>3. IsFiniteSet(0..last)
    BY <1>3, FS_Interval
  <2>4. SumFunctionOnSet(f, 0..last) = SumFunctionOnSet(whole, 0..last)
    <3> HIDE DEF f, last
    <3> QED
      BY <2>2, <2>3, SumEqual
  <2>5. SumFunctionOnSet(whole, 0..last) = P(epoch \div E)
    BY DEF P
  <2> QED
    BY <2>1, <2>4, <2>5
<1> QED
  BY <1>8, <1>9, <1>10, <1>11

----------------------------------------------------------------------------
(* The line of headers behind a tip, and the replay of its ledger. *)

\* f is the line behind tip.
IsLine(f, tip) ==
    f = [h \in 0..tip.height |-> IF h = tip.height THEN tip ELSE f[h + 1].parent[1]]

\* There is one.
Grounded(tip) == tip.height \in Nat /\ IsLine(Line(tip), tip)

\* If there is a line, Line finds it.
LEMMA LineIsChosen ==
    ASSUME NEW tip, \E f : IsLine(f, tip)
    PROVE  IsLine(Line(tip), tip)
BY Zenon DEF Line, IsLine

\* There is only one.
LEMMA LinesAgree ==
    ASSUME NEW tip, tip.height \in Nat, NEW f, IsLine(f, tip), NEW g, IsLine(g, tip)
    PROVE  \A h \in 0..tip.height : f[h] = g[h]
<1> DEFINE n == tip.height
           B == {h \in 0..n : f[h] # g[h]}
<1>1. n \in Nat
  OBVIOUS
<1>2. \A h \in 0..n : /\ f[h] = IF h = n THEN tip ELSE f[h + 1].parent[1]
                      /\ g[h] = IF h = n THEN tip ELSE g[h + 1].parent[1]
  BY DEF IsLine
<1> SUFFICES ASSUME B # {} PROVE FALSE
  OBVIOUS
<1> DEFINE m == Max(B)
<1> HIDE DEF n
<1>3. B \subseteq Int /\ IsFiniteSet(0..n)
  BY <1>1, FS_Interval
<1>4. IsFiniteSet(B)
  BY <1>3, FS_Subset
<1> HIDE DEF B
<1>5. m \in B /\ \A h \in B : h <= m
  BY <1>3, <1>4, MaxIsLargest
<1> HIDE DEF m
<1>6. m \in 0..n /\ f[m] # g[m]
  BY <1>5 DEF B
<1>7. m # n
  BY <1>2, <1>6
<1>8. m + 1 \in 0..n /\ ~(m + 1 <= m)
  BY <1>1, <1>6, <1>7
<1>9. f[m + 1] = g[m + 1]
  BY <1>5, <1>8 DEF B
<1> QED
  BY <1>2, <1>6, <1>7, <1>9

\* A block on a tip makes the line one header longer.
LEMMA LineGrows ==
    ASSUME NEW tip, Grounded(tip),
           NEW next, next.parent = Id(tip), next.height = tip.height + 1
    PROVE  /\ Grounded(next)
           /\ Line(next)[next.height] = next
           /\ \A h \in 0..tip.height : Line(next)[h] = Line(tip)[h]
<1> DEFINE n == tip.height
           f == Line(tip)
           g == [h \in 0..(n + 1) |-> IF h = n + 1 THEN next ELSE f[h]]
<1>1. n \in Nat /\ \A h \in 0..n : f[h] = IF h = n THEN tip ELSE f[h + 1].parent[1]
  BY DEF Grounded, IsLine
<1> HIDE DEF f, n
<1>2. next.height = n + 1 /\ next.parent[1] = tip /\ f[n] = tip
  BY <1>1 DEF n, Id
<1>3. ASSUME NEW h \in 0..(n + 1)
      PROVE  g[h] = IF h = n + 1 THEN next ELSE g[h + 1].parent[1]
  <2>1. CASE h = n + 1
    BY <2>1
  <2>2. CASE h = n
    <3>1. h # n + 1 /\ h + 1 \in 0..(n + 1) /\ h + 1 = n + 1
      BY <1>1, <2>2
    <3>2. g[h + 1] = next /\ g[h] = f[n]
      BY <2>2, <3>1
    <3> QED
      BY <1>2, <3>1, <3>2
  <2>3. CASE h # n + 1 /\ h # n
    <3>1. h \in 0..n /\ h + 1 \in 0..(n + 1) /\ h + 1 # n + 1
      BY <1>1, <2>3
    <3>2. g[h] = f[h] /\ g[h + 1] = f[h + 1]
      BY <2>3, <3>1
    <3> QED
      BY <1>1, <2>3, <3>1, <3>2
  <2> QED
    BY <2>1, <2>2, <2>3
<1>4. g = [h \in 0..(n + 1) |-> g[h]]
  OBVIOUS
<1>5. \A h \in 0..n : g[h] = f[h]
  BY <1>1
<1>6. g[n + 1] = next /\ n + 1 \in 0..(n + 1) /\ 0..n \subseteq 0..(n + 1)
  BY <1>1
<1> HIDE DEF g
<1>7. IsLine(g, next)
  BY <1>2, <1>3, <1>4 DEF IsLine
<1>8. IsLine(Line(next), next)
  BY <1>7, LineIsChosen
<1>9. next.height \in Nat
  BY <1>1, <1>2
<1>10. \A h \in 0..next.height : Line(next)[h] = g[h]
  BY <1>7, <1>8, <1>9, LinesAgree
<1>11. \A h \in 0..n : Line(next)[h] = f[h]
  BY <1>2, <1>5, <1>6, <1>10
<1>12. Line(next)[next.height] = next
  BY <1>2, <1>6, <1>10
<1> QED
  BY <1>8, <1>9, <1>11, <1>12 DEF Grounded, n, f

\* The line of the genesis header is itself.
LEMMA LineOfGenesis == Grounded(GenesisHeader) /\ Line(GenesisHeader)[0] = GenesisHeader
<1>1. GenesisHeader.height = 0
  BY DEF GenesisHeader
<1> DEFINE f == [h \in 0..0 |-> GenesisHeader]
<1>2. IsLine(f, GenesisHeader)
  BY <1>1 DEF IsLine
<1>3. IsLine(Line(GenesisHeader), GenesisHeader)
  BY <1>2, LineIsChosen
<1>4. Line(GenesisHeader)[0] = GenesisHeader
  BY <1>1, <1>3 DEF IsLine
<1> QED
  BY <1>1, <1>3, <1>4 DEF Grounded

\* A block whose transactions are read off its header.
Restored(header) ==
    [header |-> header,
     txs |-> [i \in DOMAIN header.txRoot |-> [body |-> header.txRoot[i], genuine |-> TRUE]]]

\* g is the ledger after every header of the line behind tip.
IsReplay(g, tip) ==
    g = [h \in 0..tip.height |->
            IF h = 0 THEN GenesisLedger ELSE Working(Restored(Line(tip)[h]), g[h - 1])]

\* The one that Replayed reads.
ReplayOf(tip) == CHOOSE g : IsReplay(g, tip)

\* Replayed is its last value.
LEMMA ReplayedIs == ASSUME NEW tip PROVE Replayed(tip) = ReplayOf(tip)[tip.height]
BY Zenon DEF Replayed, ReplayOf, IsReplay, Restored

\* There is only one replay.
LEMMA ReplaysAgree ==
    ASSUME NEW tip, tip.height \in Nat, NEW f, IsReplay(f, tip), NEW g, IsReplay(g, tip)
    PROVE  \A h \in 0..tip.height : f[h] = g[h]
<1> DEFINE n == tip.height
           B == {h \in 0..n : f[h] # g[h]}
           block(h) == Restored(Line(tip)[h])
<1>1. n \in Nat
  OBVIOUS
<1>2. \A h \in 0..n : /\ f[h] = IF h = 0 THEN GenesisLedger ELSE Working(block(h), f[h - 1])
                      /\ g[h] = IF h = 0 THEN GenesisLedger ELSE Working(block(h), g[h - 1])
  BY DEF IsReplay
<1> SUFFICES ASSUME B # {} PROVE FALSE
  OBVIOUS
<1> DEFINE m == Min(B)
<1> HIDE DEF n, block
<1>3. B \subseteq Int /\ IsFiniteSet(0..n)
  BY <1>1, FS_Interval
<1>4. IsFiniteSet(B)
  BY <1>3, FS_Subset
<1> HIDE DEF B
<1>5. m \in B /\ \A h \in B : m <= h
  BY <1>3, <1>4, MinIsSmallest
<1> HIDE DEF m
<1>6. m \in 0..n /\ f[m] # g[m]
  BY <1>5 DEF B
<1>7. m # 0
  BY <1>2, <1>6
<1>8. m - 1 \in 0..n /\ ~(m <= m - 1)
  BY <1>1, <1>6, <1>7
<1>9. f[m - 1] = g[m - 1]
  BY <1>5, <1>8 DEF B
<1> QED
  BY <1>2, <1>6, <1>7, <1>9

\* A block on a tip makes the replay one block longer.
LEMMA ReplayGrows ==
    ASSUME NEW tip, Grounded(tip), IsReplay(ReplayOf(tip), tip),
           NEW next, next.parent = Id(tip), next.height = tip.height + 1
    PROVE  /\ IsReplay(ReplayOf(next), next)
           /\ Replayed(next) = Working(Restored(next), Replayed(tip))
<1> DEFINE n == tip.height
           f == ReplayOf(tip)
           old(h) == Restored(Line(tip)[h])
           new(h) == Restored(Line(next)[h])
           g == [h \in 0..(n + 1) |-> IF h = n + 1 THEN Working(Restored(next), f[n]) ELSE f[h]]
<1>1. n \in Nat
  BY DEF Grounded
<1>2. \A h \in 0..n : f[h] = IF h = 0 THEN GenesisLedger ELSE Working(old(h), f[h - 1])
  BY DEF IsReplay
<1>3. next.height = n + 1 /\ new(n + 1) = Restored(next) /\ \A h \in 0..n : new(h) = old(h)
  BY LineGrows
<1> HIDE DEF f, n, old, new
<1>4. ASSUME NEW h \in 0..(n + 1)
      PROVE  g[h] = IF h = 0 THEN GenesisLedger ELSE Working(new(h), g[h - 1])
  <2>1. CASE h = n + 1
    <3>1. h # 0 /\ h - 1 = n /\ n \in 0..(n + 1) /\ n # n + 1
      BY <1>1, <2>1
    <3>2. g[h] = Working(Restored(next), f[n]) /\ g[h - 1] = f[n]
      BY <2>1, <3>1
    <3> QED
      BY <1>3, <2>1, <3>1, <3>2
  <2>2. CASE h # n + 1
    <3>1. h \in 0..n
      BY <1>1, <2>2
    <3>2. h # 0 => h - 1 \in 0..(n + 1) /\ h - 1 # n + 1
      BY <1>1, <3>1
    <3>3. g[h] = f[h] /\ (h # 0 => g[h - 1] = f[h - 1])
      BY <2>2, <3>2
    <3> QED
      BY <1>2, <1>3, <3>1, <3>3
  <2> QED
    BY <2>1, <2>2
<1>5. g = [h \in 0..(n + 1) |-> g[h]]
  OBVIOUS
<1>6. g[n + 1] = Working(Restored(next), f[n]) /\ n + 1 \in 0..(n + 1) /\ n + 1 \in Nat
  BY <1>1
<1> HIDE DEF g
<1>7. IsReplay(g, next)
  BY <1>3, <1>4, <1>5 DEF IsReplay, new
<1>8. IsReplay(ReplayOf(next), next)
  BY <1>7, Zenon DEF ReplayOf
<1>9. ReplayOf(next)[n + 1] = g[n + 1]
  BY <1>3, <1>6, <1>7, <1>8, ReplaysAgree
<1>10. Replayed(next) = g[n + 1] /\ Replayed(tip) = f[n]
  BY <1>3, <1>9, ReplayedIs DEF f, n
<1> QED
  BY <1>6, <1>8, <1>10

\* The genesis header's replay is the genesis ledger.
LEMMA ReplayOfGenesis ==
    /\ IsReplay(ReplayOf(GenesisHeader), GenesisHeader)
    /\ Replayed(GenesisHeader) = GenesisLedger
<1>1. GenesisHeader.height = 0
  BY DEF GenesisHeader
<1> DEFINE g == [h \in 0..0 |-> GenesisLedger]
<1>2. IsReplay(g, GenesisHeader)
  BY <1>1 DEF IsReplay
<1>3. IsReplay(ReplayOf(GenesisHeader), GenesisHeader)
  BY <1>2, Zenon DEF ReplayOf
<1>4. ReplayOf(GenesisHeader)[0] = GenesisLedger
  BY <1>1, <1>3 DEF IsReplay
<1> QED
  BY <1>1, <1>3, <1>4, ReplayedIs

----------------------------------------------------------------------------
(* The ledger under a list of transactions. *)

\* The genesis ledger is one.
LEMMA GenesisLedgerIs == GenesisLedger \in Ledgers
BY ChainAssumption DEF GenesisLedger, Ledgers

\* Housekeeping keeps a ledger one.
LEMMA HousekeepIs ==
    ASSUME NEW ledger \in Ledgers, NEW finalized
    PROVE  Housekeep(ledger, finalized) \in Ledgers
<1>1. CASE ledger.closing \in Nat /\ ledger.closing + Window <= finalized
  <2>1. /\ ledger.balance \in [Users -> Nat] /\ Payer \in Users /\ Deposit \in Nat
        /\ ledger.balance[Payer] \in Nat
    BY ChainAssumption DEF Ledgers
  <2>2. [ledger.balance EXCEPT ![Payer] = @ + Deposit] \in [Users -> Nat]
    BY <2>1
  <2>3. Housekeep(ledger, finalized) =
           [ledger EXCEPT !.balance[Payer] = @ + Deposit, !.closing = Settled]
    BY <1>1 DEF Housekeep
  <2> QED
    BY <2>2, <2>3 DEF Ledgers
<1>2. CASE ~(ledger.closing \in Nat /\ ledger.closing + Window <= finalized)
  BY <1>2 DEF Housekeep
<1> QED
  BY <1>1, <1>2

\* What passes leaves a ledger.
LEMMA EffectIs ==
    ASSUME NEW ledger \in Ledgers, NEW context, context.finalized \in Nat,
           NEW tx \in Transactions, Passes(ledger, context, tx)
    PROVE  Effect(ledger, context, tx.body) \in Ledgers
<1> DEFINE a == tx.body.account
<1>1. a \in Users
  BY DEF Transactions
<1>2. /\ ledger.balance \in [Users -> Nat] /\ ledger.next \in [Users -> Nat]
      /\ ledger.closing \in Nat \cup {Absent, Settled} /\ ledger.fees \in Nat
  BY DEF Ledgers
<1>3. ledger.balance[a] >= 1 /\ ledger.balance[a] \in Nat /\ ledger.next[a] \in Nat
  BY <1>1, <1>2 DEF Passes, Applies
<1> DEFINE closing == IF tx.body.kind = "PurseCloseUnilateral"
                      THEN context.finalized ELSE ledger.closing
<1>4. /\ [ledger.balance EXCEPT ![a] = @ - 1] \in [Users -> Nat]
      /\ [ledger.next EXCEPT ![a] = @ + 1] \in [Users -> Nat]
      /\ ledger.fees + 1 \in Nat
      /\ closing \in Nat \cup {Absent, Settled}
  BY <1>1, <1>2, <1>3
<1>5. Effect(ledger, context, tx.body) =
         [ledger EXCEPT !.balance = [ledger.balance EXCEPT ![a] = @ - 1],
                        !.next = [ledger.next EXCEPT ![a] = @ + 1],
                        !.fees = ledger.fees + 1,
                        !.closing = closing]
  BY DEF Effect, Ledgers
<1> HIDE DEF closing
<1> QED
  BY <1>4, <1>5 DEF Ledgers

\* One transaction of a list that is all or nothing.
ApplyOne(l, context, tx) ==
    IF l # Absent /\ Passes(l, context, tx) THEN Effect(l, context, tx.body) ELSE Absent

\* h is what each set of the list's places leaves.
ApplyFolds(ledger, context, txs, h) == h = [s \in SUBSET DOMAIN txs |->
    IF s = {} THEN ledger ELSE ApplyOne(h[s \ {Max(s)}], context, txs[Max(s)])]

LEMMA ApplyAllIs ==
    ASSUME NEW ledger, NEW context, NEW txs
    PROVE  ApplyAll(ledger, context, txs) =
              (CHOOSE h : ApplyFolds(ledger, context, txs, h))[DOMAIN txs]
BY Zenon DEF ApplyAll, ApplyFolds, ApplyOne, FoldLeft, MapThenFoldSet

\* The largest of some places of a list is one of them.
LEMMA LastPlace ==
    ASSUME NEW n \in Nat, NEW s \in SUBSET (1..n), s # {}
    PROVE  Max(s) \in s
<1>1. IsFiniteSet(1..n) /\ 1..n \subseteq Int
  BY FS_Interval
<1>2. IsFiniteSet(s) /\ s \subseteq Int
  BY <1>1, FS_Subset
<1> QED
  BY <1>2, MaxIsLargest

\* There is such a function, and its values are ledgers or nothing.
LEMMA ApplyFoldsExist ==
    ASSUME NEW ledger \in Ledgers, NEW context, context.finalized \in Nat,
           NEW txs \in Seq(Transactions),
           NEW h, h = CHOOSE g : ApplyFolds(ledger, context, txs, g)
    PROVE  /\ ApplyFolds(ledger, context, txs, h)
           /\ \A s \in SUBSET DOMAIN txs : h[s] \in Ledgers \cup {Absent}
<1> DEFINE S == DOMAIN txs
           V == Ledgers \cup {Absent}
           pick == [s \in SUBSET S |-> Max(s)]
           step == [k \in S |-> [l \in V |-> ApplyOne(l, context, txs[k])]]
<1>1. S = 1..Len(txs) /\ Len(txs) \in Nat /\ IsFiniteSet(S)
  BY FS_Interval
<1>2. \A s \in SUBSET S : s # {} => pick[s] \in s /\ Max(s) \in s
  BY <1>1, LastPlace
<1>3. step \in [S -> [V -> V]]
  <2>1. ASSUME NEW k \in S, NEW l \in V
        PROVE  ApplyOne(l, context, txs[k]) \in V
    <3>1. txs[k] \in Transactions
      BY <1>1
    <3>2. l # Absent => l \in Ledgers
      OBVIOUS
    <3> QED
      BY <3>1, <3>2, EffectIs DEF ApplyOne
  <2> HIDE DEF V, S
  <2> QED
    BY <2>1
<1>4. PICK g : Folds(step, ledger, pick, S, g)
  <2> HIDE DEF step, pick, S
  <2> QED
    BY <1>1, <1>2, FoldExists
<1>5. \A s \in SUBSET S : g[s] \in V
  <2>1. ledger \in V
    OBVIOUS
  <2>2. \A s \in SUBSET S : s # {} => pick[s] \in s
    BY <1>2
  <2> HIDE DEF step, pick, S, V
  <2> QED
    BY <1>1, <2>1, <2>2, <1>3, <1>4, FoldStays
<1>6. ApplyFolds(ledger, context, txs, g)
  <2>1. ASSUME NEW s \in SUBSET S
        PROVE  g[s] = IF s = {} THEN ledger
                      ELSE ApplyOne(g[s \ {Max(s)}], context, txs[Max(s)])
    <3>1. g[s] = IF s = {} THEN ledger ELSE step[pick[s]][g[s \ {pick[s]}]]
      <4> HIDE DEF step, pick, S
      <4> QED
        BY <1>4 DEF Folds
    <3>2. ASSUME s # {}
          PROVE  step[pick[s]][g[s \ {pick[s]}]] = ApplyOne(g[s \ {Max(s)}], context, txs[Max(s)])
      <4>1. Max(s) \in S /\ pick[s] = Max(s)
        BY <1>2, <3>2
      <4>2. g[s \ {Max(s)}] \in V
        BY <1>5
      <4> HIDE DEF V, S
      <4> QED
        BY <4>1, <4>2
    <3> HIDE DEF step, pick, S
    <3> QED
      BY <3>1, <3>2
  <2>2. g = [s \in SUBSET S |-> g[s]]
    <3> HIDE DEF step, pick, S
    <3> QED
      BY <1>4 DEF Folds
  <2> QED
    BY <2>1, <2>2 DEF ApplyFolds
<1>7. ApplyFolds(ledger, context, txs, h)
  BY <1>6, Zenon
<1>8. \A s \in SUBSET S : h[s] \in V
  <2> DEFINE G == {s \in SUBSET S : h[s] \in V}
  <2> SUFFICES ASSUME NEW t \in SUBSET S PROVE t \in G
    OBVIOUS
  <2>1. {} \in G
    BY <1>7 DEF ApplyFolds
  <2>2. ASSUME NEW s \in SUBSET t, s # {}, \A x \in s : s \ {x} \in G
        PROVE  s \in G
    <3>1. Max(s) \in s /\ Max(s) \in S
      BY <1>2, <2>2
    <3>2. h[s \ {Max(s)}] \in V
      BY <2>2, <3>1
    <3>3. h[s] = ApplyOne(h[s \ {Max(s)}], context, txs[Max(s)])
      BY <1>7, <2>2 DEF ApplyFolds
    <3>4. txs[Max(s)] \in Transactions
      BY <1>1, <3>1
    <3>5. h[s] \in V
      <4>1. h[s \ {Max(s)}] # Absent => h[s \ {Max(s)}] \in Ledgers
        BY <3>2
      <4> QED
        BY <3>3, <3>4, <4>1, EffectIs DEF ApplyOne
    <3> QED
      BY <3>5
  <2>3. IsFiniteSet(t)
    BY <1>1, FS_Subset
  <2> HIDE DEF G, S
  <2> QED
    BY <2>1, <2>2, <2>3, SetInduction
<1> QED
  BY <1>7, <1>8

\* A list leaves a ledger, if every one of its signatures is good, or nothing.
LEMMA ApplyAllLeaves ==
    ASSUME NEW ledger \in Ledgers, NEW context, context.finalized \in Nat,
           NEW txs \in Seq(Transactions)
    PROVE  /\ ApplyAll(ledger, context, txs) \in Ledgers \cup {Absent}
           /\ ApplyAll(ledger, context, txs) # Absent => \A i \in DOMAIN txs : txs[i].genuine
<1> DEFINE S == DOMAIN txs
           h == CHOOSE g : ApplyFolds(ledger, context, txs, g)
           G == {s \in SUBSET S : h[s] # Absent => \A i \in s : txs[i].genuine}
<1>1. ApplyAll(ledger, context, txs) = h[S]
  BY ApplyAllIs
<1>2. /\ ApplyFolds(ledger, context, txs, h)
      /\ \A s \in SUBSET S : h[s] \in Ledgers \cup {Absent}
  <2> HIDE DEF S
  <2> QED
    BY ApplyFoldsExist DEF S
<1> HIDE DEF h
<1>3. S = 1..Len(txs) /\ Len(txs) \in Nat /\ IsFiniteSet(S)
  BY FS_Interval
<1>4. {} \in G
  OBVIOUS
<1>5. ASSUME NEW s \in SUBSET S, s # {}, \A x \in s : s \ {x} \in G
      PROVE  s \in G
  <2>1. Max(s) \in s
    BY <1>3, <1>5, LastPlace
  <2>2. h[s] = ApplyOne(h[s \ {Max(s)}], context, txs[Max(s)])
    BY <1>2, <1>5 DEF ApplyFolds
  <2>3. h[s] # Absent => h[s \ {Max(s)}] # Absent /\ txs[Max(s)].genuine
    BY <2>2 DEF ApplyOne, Passes
  <2>4. h[s] # Absent => \A i \in s \ {Max(s)} : txs[i].genuine
    BY <1>5, <2>1, <2>3
  <2> QED
    BY <2>3, <2>4
<1> HIDE DEF G
<1>6. S \in G
  <2> HIDE DEF S
  <2> QED
    BY <1>3, <1>4, <1>5, SetInduction
<1> QED
  BY <1>1, <1>2, <1>6 DEF G

\* An empty list changes nothing.
LEMMA ApplyNone ==
    ASSUME NEW ledger \in Ledgers, NEW context, context.finalized \in Nat
    PROVE  ApplyAll(ledger, context, <<>>) = ledger
<1> DEFINE h == CHOOSE g : ApplyFolds(ledger, context, <<>>, g)
<1>1. <<>> \in Seq(Transactions) /\ DOMAIN <<>> = {}
  OBVIOUS
<1>2. ApplyFolds(ledger, context, <<>>, h)
  BY <1>1, ApplyFoldsExist
<1>3. ApplyAll(ledger, context, <<>>) = h[DOMAIN <<>>]
  BY ApplyAllIs
<1> HIDE DEF h
<1> QED
  BY <1>1, <1>2, <1>3 DEF ApplyFolds

\* A transaction more at the end of a list comes after all others.
LEMMA ApplyMore ==
    ASSUME NEW ledger \in Ledgers, NEW context, context.finalized \in Nat,
           NEW txs \in Seq(Transactions), NEW tx \in Transactions
    PROVE  ApplyAll(ledger, context, Append(txs, tx)) =
              ApplyOne(ApplyAll(ledger, context, txs), context, tx)
<1> DEFINE more == Append(txs, tx)
           n == Len(txs)
           h == CHOOSE x : ApplyFolds(ledger, context, txs, x)
           g == CHOOSE x : ApplyFolds(ledger, context, more, x)
<1>1. /\ more \in Seq(Transactions) /\ n \in Nat
      /\ DOMAIN txs = 1..n /\ DOMAIN more = 1..(n + 1)
      /\ more[n + 1] = tx /\ \A i \in 1..n : more[i] = txs[i]
  OBVIOUS
<1>2. ApplyAll(ledger, context, txs) = h[1..n] /\ ApplyAll(ledger, context, more) = g[1..(n + 1)]
  <2> HIDE DEF more
  <2> QED
    BY <1>1, ApplyAllIs
<1>3. ApplyFolds(ledger, context, txs, h) /\ ApplyFolds(ledger, context, more, g)
  <2> HIDE DEF more
  <2> QED
    BY <1>1, ApplyFoldsExist
<1> HIDE DEF h, g, more, n
<1> DEFINE G == {s \in SUBSET (1..n) : g[s] = h[s]}
<1>4. {} \in G
  BY <1>3 DEF ApplyFolds
<1>5. ASSUME NEW s \in SUBSET (1..n), s # {}, \A x \in s : s \ {x} \in G
      PROVE  s \in G
  <2>1. Max(s) \in s /\ s \in SUBSET (1..(n + 1))
    <3>1. Max(s) \in s
      BY <1>1, <1>5, LastPlace
    <3>2. \A i \in 1..n : i \in 1..(n + 1)
      BY <1>1
    <3> QED
      BY <3>1, <3>2
  <2>2. g[s] = ApplyOne(g[s \ {Max(s)}], context, more[Max(s)])
    BY <1>1, <1>3, <1>5, <2>1 DEF ApplyFolds
  <2>3. h[s] = ApplyOne(h[s \ {Max(s)}], context, txs[Max(s)])
    BY <1>1, <1>3, <1>5 DEF ApplyFolds
  <2>4. g[s \ {Max(s)}] = h[s \ {Max(s)}] /\ more[Max(s)] = txs[Max(s)]
    BY <1>1, <1>5, <2>1
  <2> QED
    BY <2>2, <2>3, <2>4
<1> HIDE DEF G
<1>6. 1..n \in G
  <2>1. IsFiniteSet(1..n)
    BY <1>1, FS_Interval
  <2> QED
    BY <1>4, <1>5, <2>1, SetInduction
<1> DEFINE all == 1..(n + 1)
<1>7. Max(all) = n + 1 /\ all \ {n + 1} = 1..n /\ all # {} /\ all \in SUBSET DOMAIN more
  <2>1. IsFiniteSet(all) /\ all \subseteq Int /\ n + 1 \in all /\ \A i \in all : i <= n + 1
    BY <1>1, FS_Interval
  <2>2. Max(all) \in all /\ \A i \in all : i <= Max(all)
    <3> HIDE DEF all
    <3> QED
      BY <2>1, MaxIsLargest
  <2>3. Max(all) <= n + 1 /\ n + 1 <= Max(all) /\ Max(all) \in Int
    BY <2>1, <2>2
  <2>4. Max(all) = n + 1
    BY <1>1, <2>3
  <2>5. all \ {n + 1} = 1..n
    BY <1>1
  <2>6. all # {} /\ all \in SUBSET DOMAIN more
    <3>1. all # {}
      BY <2>1
    <3>2. all = DOMAIN more
      BY <1>1
    <3> QED
      BY <3>1, <3>2
  <2> QED
    BY <2>4, <2>5, <2>6
<1> HIDE DEF all
<1>8. g[all] = ApplyOne(g[all \ {Max(all)}], context, more[Max(all)])
  BY <1>3, <1>7 DEF ApplyFolds
<1>9. g[1..n] = h[1..n]
  BY <1>6 DEF G
<1> QED
  BY <1>1, <1>2, <1>7, <1>8, <1>9 DEF all, more

\* One transaction of a list of which the bad ones are left out.
IncludeOne(b, context, tx) ==
    IF Passes(b.ledger, context, tx)
    THEN [ledger |-> Effect(b.ledger, context, tx.body), txs |-> Append(b.txs, tx)]
    ELSE b

\* h is what each set of the list's places leaves.
IncludeFolds(ledger, context, txs, h) == h = [s \in SUBSET DOMAIN txs |->
    IF s = {} THEN [ledger |-> ledger, txs |-> <<>>]
    ELSE IncludeOne(h[s \ {Max(s)}], context, txs[Max(s)])]

LEMMA IncludeAllIs ==
    ASSUME NEW ledger, NEW context, NEW txs
    PROVE  IncludeAll(ledger, context, txs) =
              (CHOOSE h : IncludeFolds(ledger, context, txs, h))[DOMAIN txs]
BY Zenon DEF IncludeAll, IncludeFolds, IncludeOne, FoldLeft, MapThenFoldSet

Inclusions == [ledger : Ledgers, txs : Seq(Transactions)]

LEMMA IncludeOneIs ==
    ASSUME NEW b \in Inclusions, NEW context, context.finalized \in Nat, NEW tx \in Transactions
    PROVE  IncludeOne(b, context, tx) \in Inclusions
<1>1. b.ledger \in Ledgers /\ b.txs \in Seq(Transactions)
  BY DEF Inclusions
<1>2. Append(b.txs, tx) \in Seq(Transactions)
  BY <1>1
<1>3. Passes(b.ledger, context, tx) => Effect(b.ledger, context, tx.body) \in Ledgers
  BY <1>1, EffectIs
<1> QED
  BY <1>1, <1>2, <1>3 DEF IncludeOne, Inclusions

\* A producer ends with a ledger and the transactions that lead to it: a
\* validator that applies them all, under the header made from the same
\* context, has that ledger too.
LEMMA IncludeAllLeaves ==
    ASSUME NEW ledger \in Ledgers, NEW context, context.finalized \in Nat,
           NEW txs \in Seq(Transactions),
           NEW header, header.rung = context.rung, header.finalized = context.finalized
    PROVE  LET filled == IncludeAll(ledger, context, txs)
           IN  /\ filled \in Inclusions
               /\ ApplyAll(ledger, header, filled.txs) = filled.ledger
<1> DEFINE S == DOMAIN txs
           V == Inclusions
           base == [ledger |-> ledger, txs |-> <<>>]
           pick == [s \in SUBSET S |-> Max(s)]
           step == [k \in S |-> [b \in V |-> IncludeOne(b, context, txs[k])]]
           h == CHOOSE g : IncludeFolds(ledger, context, txs, g)
<1>1. S = 1..Len(txs) /\ Len(txs) \in Nat /\ IsFiniteSet(S)
  BY FS_Interval
<1>2. \A s \in SUBSET S : s # {} => pick[s] \in s /\ Max(s) \in s
  BY <1>1, LastPlace
<1>3. step \in [S -> [V -> V]]
  <2>1. ASSUME NEW k \in S, NEW b \in V
        PROVE  IncludeOne(b, context, txs[k]) \in V
    <3>1. txs[k] \in Transactions
      BY <1>1
    <3> QED
      BY <3>1, IncludeOneIs
  <2> HIDE DEF V, S
  <2> QED
    BY <2>1
<1>4. base \in V
  BY DEF Inclusions
<1>5. PICK g : Folds(step, base, pick, S, g)
  <2> HIDE DEF step, pick, S, base
  <2> QED
    BY <1>1, <1>2, FoldExists
<1>6. \A s \in SUBSET S : g[s] \in V
  <2>1. \A s \in SUBSET S : s # {} => pick[s] \in s
    BY <1>2
  <2>2. IsFiniteSet(S)
    BY <1>1
  <2> HIDE DEF step, pick, S, V, base
  <2> QED
    BY <1>3, <1>4, <1>5, <2>1, <2>2, FoldStays, Zenon
<1>7. IncludeFolds(ledger, context, txs, g)
  <2>1. ASSUME NEW s \in SUBSET S
        PROVE  g[s] = IF s = {} THEN base
                      ELSE IncludeOne(g[s \ {Max(s)}], context, txs[Max(s)])
    <3>1. g[s] = IF s = {} THEN base ELSE step[pick[s]][g[s \ {pick[s]}]]
      <4> HIDE DEF step, pick, S, base
      <4> QED
        BY <1>5 DEF Folds
    <3>2. ASSUME s # {}
          PROVE  step[pick[s]][g[s \ {pick[s]}]]
                    = IncludeOne(g[s \ {Max(s)}], context, txs[Max(s)])
      <4>1. Max(s) \in S /\ pick[s] = Max(s)
        BY <1>2, <3>2
      <4>2. g[s \ {Max(s)}] \in V
        BY <1>6
      <4> HIDE DEF V, S
      <4> QED
        BY <4>1, <4>2
    <3> HIDE DEF step, pick, S, base
    <3> QED
      BY <3>1, <3>2
  <2>2. g = [s \in SUBSET S |-> g[s]]
    <3> HIDE DEF step, pick, S, base
    <3> QED
      BY <1>5 DEF Folds
  <2> QED
    BY <2>1, <2>2 DEF IncludeFolds
<1>8. IncludeFolds(ledger, context, txs, h)
  BY <1>7, Zenon
<1>9. IncludeAll(ledger, context, txs) = h[S]
  BY IncludeAllIs
<1> HIDE DEF h
<1> DEFINE G == {s \in SUBSET S : /\ h[s] \in V
                                  /\ ApplyAll(ledger, header, h[s].txs) = h[s].ledger}
<1>10. {} \in G
  <2>1. h[{}] = base
    BY <1>8 DEF IncludeFolds
  <2>2. base.txs = <<>> /\ base.ledger = ledger
    OBVIOUS
  <2> HIDE DEF base
  <2>3. ApplyAll(ledger, header, base.txs) = base.ledger
    BY <2>2, ApplyNone
  <2> HIDE DEF V
  <2> QED
    BY <1>4, <2>1, <2>3
<1>11. ASSUME NEW s \in SUBSET S, s # {}, \A x \in s : s \ {x} \in G
       PROVE  s \in G
  <2>1. Max(s) \in s /\ Max(s) \in S
    BY <1>2, <1>11
  <2>2. h[s \ {Max(s)}] \in V
    BY <1>11, <2>1
  <2>3. h[s] = IncludeOne(h[s \ {Max(s)}], context, txs[Max(s)])
    BY <1>8, <1>11 DEF IncludeFolds
  <2>4. txs[Max(s)] \in Transactions
    BY <1>1, <2>1
  <2>5. h[s] \in V
    BY <2>2, <2>3, <2>4, IncludeOneIs
  <2> DEFINE b == h[s \ {Max(s)}]
             tx == txs[Max(s)]
  <2>6. /\ b.ledger \in Ledgers /\ b.ledger # Absent /\ b.txs \in Seq(Transactions)
        /\ ApplyAll(ledger, header, b.txs) = b.ledger
    BY <1>11, <2>1, <2>2, LedgersAssumption DEF Inclusions
  <2> HIDE DEF b, tx
  <2>7. ApplyAll(ledger, header, h[s].txs) = h[s].ledger
    <3>1. h[s] = IncludeOne(b, context, tx) /\ tx \in Transactions
      BY <2>3, <2>4 DEF b, tx
    <3>2. CASE Passes(b.ledger, context, tx)
      <4>1. h[s].txs = Append(b.txs, tx) /\ h[s].ledger = Effect(b.ledger, context, tx.body)
        BY <3>1, <3>2 DEF IncludeOne
      <4>2. ApplyAll(ledger, header, Append(b.txs, tx)) = ApplyOne(b.ledger, header, tx)
        BY <2>6, <3>1, ApplyMore
      <4>3. Passes(b.ledger, header, tx)
        BY <3>2 DEF Passes, Grammatical
      <4>4. Effect(b.ledger, header, tx.body) = Effect(b.ledger, context, tx.body)
        BY DEF Effect
      <4> QED
        BY <2>6, <4>1, <4>2, <4>3, <4>4 DEF ApplyOne
    <3>3. CASE ~ Passes(b.ledger, context, tx)
      <4>1. h[s] = b
        BY <3>1, <3>3 DEF IncludeOne
      <4> QED
        BY <2>6, <4>1
    <3> QED
      BY <3>2, <3>3
  <2> QED
    BY <2>5, <2>7
<1> HIDE DEF G
<1>12. S \in G
  <2> HIDE DEF S
  <2> QED
    BY <1>1, <1>10, <1>11, SetInduction
<1> QED
  BY <1>9, <1>12 DEF G

----------------------------------------------------------------------------
(* The inductive invariant: what holds of every node and every block. *)

\* The reveals of a line move every proposer's chain on, up to its record.
RevealsOf(tip, validators) ==
    LET line == Line(tip)
    IN  /\ \A v \in Accounts : Genesis[v] # Absent =>
              /\ \/ validators[v].lastReveal = Root
                 \/ \E h \in 0..tip.height :
                       line[h].proposer = v /\ line[h].reveal = validators[v].lastReveal
              /\ \A h \in 0..tip.height : line[h].proposer = v =>
                    line[h].reveal \in Nat /\ line[h].reveal <= validators[v].lastReveal
        /\ \A h \in 1..tip.height :
              line[h].proposer \in Accounts /\ Genesis[line[h].proposer] # Absent
        /\ \A i, j \in 1..tip.height :
              i < j /\ line[i].proposer = line[j].proposer => line[i].reveal < line[j].reveal

\* The validator set is genesis' but for the reveals.
StillGenesis(validators) ==
    /\ validators \in [Accounts -> {Absent} \cup ValidatorRecords]
    /\ \A v \in Accounts : validators[v] = Absent <=> Genesis[v] = Absent
    /\ \A v \in Accounts : Genesis[v] # Absent => validators[v].bond = Genesis[v].bond

\* A node's state follows from the line of headers behind its tip.
Follower(state) ==
    LET tip == state.tip
    IN  /\ tip.height \in 0..MaxHeight
        /\ tip.finalized \in 0..tip.height
        /\ tip.emitted \in Nat /\ tip.emitted <= Scheduled(EpochOfHeight(tip.height))
        /\ Grounded(tip) /\ IsReplay(ReplayOf(tip), tip)
        /\ state.ledger \in Ledgers /\ state.ledger = Replayed(tip)
        /\ StillGenesis(state.validators)
        /\ RevealsOf(tip, state.validators)
        /\ state.reached \in ClaimableByAHeader

\* The fields of a header, and of a block.
IsHeader(h) ==
    h = [height |-> h.height, parent |-> h.parent, rung |-> h.rung, finalized |-> h.finalized,
         stateRoot |-> h.stateRoot, txRoot |-> h.txRoot, proposer |-> h.proposer,
         reveal |-> h.reveal, emitted |-> h.emitted, budget |-> h.budget, ratio |-> h.ratio]
IsBlock(b) ==
    /\ b = [header |-> b.header, signer |-> b.signer, txs |-> b.txs,
            certificate |-> b.certificate]
    /\ IsHeader(b.header)

Parent(header) == header.parent[1]

\* What every block that reaches a node has: values of the right kind.
Typed(b) ==
    /\ b.txs \in Seq(Transactions)
    /\ b.header.height \in Nat /\ b.header.finalized \in Nat /\ b.header.emitted \in Nat
    /\ b.header.reveal \in Int /\ b.header.proposer \in Accounts
    /\ Parent(b.header).height < MaxHeight

\* What build's checks and its filling put in a block.
Built(b) ==
    LET header == b.header
        parent == Parent(header)
    IN  /\ IsBlock(b) /\ Typed(b)
        /\ b.signer = header.proposer /\ b.certificate = Absent
        /\ parent.height \in Nat /\ header.parent = Id(parent)
        /\ header.height = parent.height + 1
        /\ header.rung \in ClaimableByAHeader
        /\ header.rung = Chain => header.finalized = header.height
        /\ header.finalized >= parent.finalized
        /\ CounterAllowed(parent.emitted, header.emitted, EpochOfHeight(header.height))
        /\ IsActiveAt(Roster, header.proposer, BlockInEpoch(header.height))
        /\ Genesis[header.proposer] # Absent
        /\ header.txRoot = Bodies(b.txs)
        /\ header.stateRoot \in Ledgers /\ header.stateRoot = Working(b, Replayed(parent))
        /\ header.ratio = FeeEmissionRatio(header.stateRoot, header.emitted)
        /\ SecurityBudget(Genesis) # Absent => header.budget = SecurityBudget(Genesis)

NodeInv ==
    /\ DOMAIN node = Nodes
    /\ \A n \in Nodes : Follower(node[n])
    /\ IsFiniteSet(published) /\ Cardinality(published) <= MaxPublished
    /\ \A b \in published : Built(b)

\* The budget is read off bonds, which no block changes.
LEMMA BudgetIs ==
    ASSUME NEW validators, StillGenesis(validators)
    PROVE  SecurityBudget(validators) = SecurityBudget(Genesis)
<1> DEFINE bond(set) == [v \in Accounts |-> IF IsKnown(set, v) THEN set[v].bond ELSE 0]
<1>1. bond(validators) = bond(Genesis)
  <2>1. \A v \in Accounts : /\ IsKnown(validators, v) <=> IsKnown(Genesis, v)
                            /\ IsKnown(Genesis, v) => validators[v].bond = Genesis[v].bond
    BY DEF StillGenesis, IsKnown
  <2> QED
    BY <2>1
<1> QED
  BY <1>1 DEF SecurityBudget

\* An epoch is a natural number, and the schedule too.
LEMMA ScheduleIs ==
    ASSUME NEW height \in Nat
    PROVE  /\ EpochOfHeight(height) \in Nat
           /\ Scheduled(EpochOfHeight(height)) \in Nat
           /\ PermittedThrough(EpochOfHeight(height)) \in Nat
           /\ PermittedThrough(EpochOfHeight(height)) <= Scheduled(EpochOfHeight(height))
<1> DEFINE e == EpochOfHeight(height)
<1>1. e \in Nat
  BY Quotient, EpochAssumption DEF EpochOfHeight
<1> HIDE DEF e
<1>2. /\ Scheduled(e) \in Nat
      /\ PermittedThrough(e) = IF Scheduled(e) <= SupplyCap THEN Scheduled(e) ELSE SupplyCap
  BY <1>1, CeilingIsSchedule
<1>3. SupplyCap \in Nat
  BY EmissionAssumption
<1>4. PermittedThrough(e) \in Nat /\ PermittedThrough(e) <= Scheduled(e)
  BY <1>2, <1>3
<1> QED
  BY <1>1, <1>2, <1>4 DEF e

\* The genesis state follows from the genesis header.
LEMMA GenesisFollows == Follower(GenesisState)
<1> DEFINE tip == GenesisHeader
<1>1. /\ GenesisState.tip = tip /\ GenesisState.ledger = GenesisLedger
      /\ GenesisState.validators = Genesis /\ GenesisState.reached = Chain
  BY DEF GenesisState
<1>2. tip.height = 0 /\ tip.finalized = 0 /\ tip.emitted = 0 /\ tip.proposer = Absent
  BY DEF GenesisHeader
<1>3. Grounded(tip) /\ Line(tip)[0] = tip
  BY LineOfGenesis
<1>4. IsReplay(ReplayOf(tip), tip) /\ Replayed(tip) = GenesisLedger
  BY ReplayOfGenesis
<1>5. StillGenesis(Genesis)
  BY ValidatorsAssumption DEF StillGenesis
<1> HIDE DEF tip
<1>6. RevealsOf(tip, Genesis)
  <2>1. \A v \in Accounts : Genesis[v] # Absent => Genesis[v].lastReveal = Root
    BY ValidatorsAssumption DEF IsKnown
  <2>2. \A v \in Accounts, h \in 0..0 : Line(tip)[h].proposer # v
    BY <1>2, <1>3, ValidatorsAssumption
  <2>3. 1..0 = {}
    OBVIOUS
  <2> QED
    BY <1>2, <2>1, <2>2, <2>3 DEF RevealsOf
<1>7. 0 \in 0..MaxHeight /\ 0 \in Nat /\ 0 \in 0..0 /\ 0 <= Scheduled(EpochOfHeight(0))
  BY ScheduleIs, ChainAssumption
<1> QED
  BY <1>1, <1>2, <1>3, <1>4, <1>5, <1>6, <1>7, GenesisLedgerIs DEF Follower, ClaimableByAHeader

\* What anybody makes of a block still holds values of the right kind.
LEMMA ArrivedIsTyped ==
    ASSUME NEW b, Built(b), NEW arrived \in Deliverable(b)
    PROVE  Typed(arrived)
<1>1. IsBlock(b) /\ Typed(b)
  BY DEF Built
<1>2. CASE arrived \in Relayed(b)
  <2>1. CASE \E c : arrived = [b EXCEPT !.certificate = c]
    BY <1>1, <2>1 DEF IsBlock, Typed
  <2>2. CASE arrived = [b EXCEPT !.txs = <<>>]
    BY <1>1, <2>2 DEF IsBlock, Typed
  <2>3. CASE arrived = [b EXCEPT !.txs = [i \in DOMAIN @ |-> [@[i] EXCEPT !.genuine = FALSE]]]
    <3> DEFINE txs == [i \in DOMAIN b.txs |-> [b.txs[i] EXCEPT !.genuine = FALSE]]
    <3>1. \A i \in DOMAIN b.txs : [b.txs[i] EXCEPT !.genuine = FALSE] \in Transactions
      <4>1. \A i \in DOMAIN b.txs : b.txs[i] \in Transactions
        BY <1>1 DEF Typed
      <4> QED
        BY <4>1 DEF Transactions
    <3>2. DOMAIN b.txs = 1..Len(b.txs) /\ Len(b.txs) \in Nat
      BY <1>1 DEF Typed
    <3>3. txs \in Seq(Transactions)
      BY <3>1, <3>2
    <3>4. arrived.txs = txs /\ arrived.header = b.header
      BY <1>1, <2>3 DEF IsBlock
    <3> HIDE DEF txs
    <3> QED
      BY <1>1, <3>3, <3>4 DEF Typed
  <2> QED
    BY <1>2, <2>1, <2>2, <2>3 DEF Relayed
<1>3. CASE arrived \in Altered(b)
  <2> DEFINE old == b.header
  <2>1. PICK h : /\ \/ h = [old EXCEPT !.stateRoot = GenesisLedger]
                    \/ h = [old EXCEPT !.finalized = @ + 1]
                    \/ h = [old EXCEPT !.height = @ + 1]
                    \/ h = [old EXCEPT !.reveal = @ - 1]
                    \/ h = [old EXCEPT !.emitted = @ + 1]
                    \/ h = [old EXCEPT !.budget = @ + 1]
                    \/ h = [old EXCEPT !.rung = Federal]
                 /\ arrived = [b EXCEPT !.header = h,
                                  !.signer = IF h.proposer \in Faulty THEN h.proposer ELSE Absent]
    BY <1>3 DEF Altered
  <2>2. arrived.header = h /\ arrived.txs = b.txs
    BY <1>1, <2>1 DEF IsBlock
  <2>3. /\ h.height \in Nat /\ h.finalized \in Nat /\ h.emitted \in Nat /\ h.reveal \in Int
        /\ h.proposer = old.proposer /\ h.parent = old.parent
    <3>1. /\ old.height \in Nat /\ old.finalized \in Nat /\ old.emitted \in Nat
          /\ old.reveal \in Int /\ IsHeader(old)
      BY <1>1 DEF Typed, IsBlock
    <3> HIDE DEF old
    <3> QED
      BY <2>1, <3>1 DEF IsHeader
  <2> QED
    BY <1>1, <2>2, <2>3 DEF Typed, Parent
<1> QED
  BY <1>2, <1>3 DEF Deliverable

\* A block that is accepted lengthens the line, the replay and the reveals.
LEMMA AcceptedFollows ==
    ASSUME NEW state, Follower(state), NEW b, Typed(b),
           NEW applied, applied = Working(b, state.ledger), IsValid(b, state, applied)
    PROVE  Follower(After(b, state, applied))
<1> DEFINE next == b.header
           tip == state.tip
           p == next.proposer
           old == state.validators
           set == SpendReveal(old, next)
           reached == ReachedRung(b, old)
<1>1. After(b, state, applied) =
         [tip |-> next, ledger |-> applied, validators |-> set, reached |-> reached]
  BY DEF After
<1>2. /\ SelfConsistent(next) /\ Follows(next, tip) /\ ProposerEntitled(b, Roster, old)
      /\ RevealAdvances(next, old) /\ next.txRoot = Bodies(b.txs)
      /\ applied # Absent /\ next.stateRoot = applied
  BY DEF IsValid
<1>3. /\ b.txs \in Seq(Transactions)
      /\ next.height \in Nat /\ next.finalized \in Nat /\ next.emitted \in Nat
      /\ next.reveal \in Int /\ p \in Accounts /\ Parent(next).height < MaxHeight
  BY DEF Typed
<1>4. /\ tip.height \in 0..MaxHeight /\ tip.finalized \in 0..tip.height
      /\ tip.emitted \in Nat
      /\ Grounded(tip) /\ IsReplay(ReplayOf(tip), tip)
      /\ state.ledger \in Ledgers /\ state.ledger = Replayed(tip)
      /\ StillGenesis(old) /\ RevealsOf(tip, old)
  BY DEF Follower
<1>5. /\ next.height = tip.height + 1 /\ next.parent = Id(tip) /\ Parent(next) = tip
  BY <1>2 DEF Follows, Parent, Id
<1> HIDE DEF next, tip, p, old, set, reached
<1>6. next.height \in 0..MaxHeight /\ next.finalized \in 0..next.height
  <2>1. next.finalized <= next.height
    BY <1>2 DEF SelfConsistent
  <2> QED
    BY <1>3, <1>4, <1>5, <2>1, ChainAssumption
<1>7. next.emitted <= Scheduled(EpochOfHeight(next.height))
  <2>1. next.emitted <= PermittedThrough(EpochOfHeight(next.height))
    BY <1>2 DEF Follows, CounterAllowed
  <2>2. /\ Scheduled(EpochOfHeight(next.height)) \in Nat
        /\ PermittedThrough(EpochOfHeight(next.height)) \in Nat
        /\ PermittedThrough(EpochOfHeight(next.height)) <= Scheduled(EpochOfHeight(next.height))
    BY <1>3, ScheduleIs
  <2> QED
    BY <1>3, <2>1, <2>2
<1>8. /\ Grounded(next) /\ Line(next)[next.height] = next
      /\ \A h \in 0..tip.height : Line(next)[h] = Line(tip)[h]
  BY <1>4, <1>5, LineGrows
<1>9. IsReplay(ReplayOf(next), next) /\ Replayed(next) = Working(Restored(next), state.ledger)
  BY <1>4, <1>5, ReplayGrows
<1>10. applied \in Ledgers /\ applied = Replayed(next)
  <2> DEFINE ledger == Housekeep(state.ledger, next.finalized)
  <2>1. ledger \in Ledgers
    BY <1>4, HousekeepIs
  <2>2. applied = ApplyAll(ledger, next, b.txs)
    BY DEF Working, next
  <2> HIDE DEF ledger
  <2>3. applied \in Ledgers \cup {Absent} /\ \A i \in DOMAIN b.txs : b.txs[i].genuine
    BY <1>2, <1>3, <2>1, <2>2, ApplyAllLeaves
  <2>4. Restored(next).txs = b.txs
    <3> DEFINE txs == b.txs
    <3>1. DOMAIN txs = 1..Len(txs) /\ \A i \in DOMAIN txs : txs[i] \in Transactions
      BY <1>3
    <3>2. \A i \in DOMAIN txs : txs[i] = [body |-> txs[i].body, genuine |-> TRUE]
      BY <2>3, <3>1 DEF Transactions
    <3>3. next.txRoot = [i \in DOMAIN txs |-> txs[i].body]
      BY <1>2, <3>1 DEF Bodies
    <3>4. Restored(next).txs = [i \in DOMAIN txs |-> [body |-> txs[i].body, genuine |-> TRUE]]
      BY <3>3 DEF Restored
    <3>5. txs = [i \in DOMAIN txs |-> txs[i]]
      BY <1>3
    <3> HIDE DEF txs
    <3> QED
      BY <3>2, <3>4, <3>5 DEF txs
  <2>5. Restored(next).header = next
    BY DEF Restored
  <2>6. Working(Restored(next), state.ledger) = ApplyAll(ledger, next, b.txs)
    BY <2>4, <2>5 DEF Working, ledger
  <2> QED
    BY <1>2, <1>9, <2>2, <2>3, <2>6
<1>11. old[p] # Absent /\ Genesis[p] # Absent /\ old[p] \in ValidatorRecords /\ old[p].lastReveal \in Nat
  <2>1. old[p] # Absent
    BY <1>2 DEF ProposerEntitled, IsKnown, p, next
  <2> QED
    BY <1>3, <1>4, <2>1 DEF StillGenesis, ValidatorRecords
<1>12. next.reveal > old[p].lastReveal /\ next.reveal \in Nat
  <2> DEFINE r == old[p].lastReveal
  <2>1. r \in Nat
    BY <1>11
  <2>2. Advances(Cursor(r), next.reveal, MaxRevealCatchup)
    BY <1>2 DEF RevealAdvances, p
  <2> DEFINE m == next.reveal
  <2>3. m \in Int /\ MaxRevealCatchup \in Nat
    BY <1>3, ChainAssumption
  <2> HIDE DEF r, m
  <2>4. m - r \in 1..MaxRevealCatchup
    BY <2>2 DEF Advances, StepsTo, Cursor, m
  <2>5. m > r /\ m \in Nat
    BY <2>1, <2>3, <2>4
  <2> QED
    BY <2>5, Zenon DEF r, m
<1>13. /\ set = [old EXCEPT ![p] = [old[p] EXCEPT !.lastReveal = next.reveal]]
       /\ set[p].lastReveal = next.reveal
       /\ \A v \in Accounts : v # p => set[v] = old[v]
  <2>1. old \in [Accounts -> {Absent} \cup ValidatorRecords]
    BY <1>4 DEF StillGenesis
  <2>2. set = [old EXCEPT ![p] = [old[p] EXCEPT !.lastReveal = next.reveal]]
    BY DEF set, SpendReveal, p
  <2>3. set[p] = [old[p] EXCEPT !.lastReveal = next.reveal]
    BY <1>3, <2>1, <2>2
  <2>4. \A v \in Accounts : v # p => set[v] = old[v]
    BY <2>1, <2>2
  <2> QED
    BY <1>11, <2>2, <2>3, <2>4 DEF ValidatorRecords
<1>14. StillGenesis(set)
  <2> DEFINE new == [old[p] EXCEPT !.lastReveal = next.reveal]
  <2>1. new \in ValidatorRecords /\ new # Absent /\ new.bond = old[p].bond
    BY <1>11, <1>12, ValidatorsAssumption DEF ValidatorRecords
  <2> HIDE DEF new
  <2>2. /\ old \in [Accounts -> {Absent} \cup ValidatorRecords]
        /\ \A v \in Accounts : old[v] = Absent <=> Genesis[v] = Absent
        /\ \A v \in Accounts : Genesis[v] # Absent => old[v].bond = Genesis[v].bond
    BY <1>4 DEF StillGenesis
  <2>3. set = [old EXCEPT ![p] = new] /\ set[p] = new
    BY <1>3, <1>13, <2>2 DEF new
  <2>4. set \in [Accounts -> {Absent} \cup ValidatorRecords]
    BY <2>1, <2>2, <2>3
  <2>5. ASSUME NEW v \in Accounts
        PROVE  /\ set[v] = Absent <=> Genesis[v] = Absent
               /\ Genesis[v] # Absent => set[v].bond = Genesis[v].bond
    <3>1. CASE v = p
      BY <1>11, <2>1, <2>2, <2>3, <3>1
    <3>2. CASE v # p
      BY <1>13, <2>2, <3>2
    <3> QED
      BY <3>1, <3>2
  <2> QED
    BY <2>4, <2>5 DEF StillGenesis
<1>15. RevealsOf(next, set)
  <2> DEFINE n == tip.height
             line == Line(tip)
             longer == Line(next)
  <2>1. /\ n \in Nat /\ next.height = n + 1 /\ longer[n + 1] = next
        /\ \A h \in 0..n : longer[h] = line[h]
    BY <1>4, <1>5, <1>8
  <2>2. \A v \in Accounts : Genesis[v] # Absent =>
           \/ old[v].lastReveal = Root
           \/ \E h \in 0..n : line[h].proposer = v /\ line[h].reveal = old[v].lastReveal
    BY <1>4 DEF RevealsOf
  <2>3. \A v \in Accounts, h \in 0..n : Genesis[v] # Absent /\ line[h].proposer = v =>
           line[h].reveal \in Nat /\ line[h].reveal <= old[v].lastReveal
    BY <1>4 DEF RevealsOf
  <2>4. \A h \in 1..n : line[h].proposer \in Accounts /\ Genesis[line[h].proposer] # Absent
    BY <1>4 DEF RevealsOf
  <2>5. \A i, j \in 1..n :
           i < j /\ line[i].proposer = line[j].proposer => line[i].reveal < line[j].reveal
    BY <1>4 DEF RevealsOf
  <2>6. next.proposer = p
    BY DEF p
  <2> HIDE DEF n, line, longer
  <2>7. \A h \in 0..(n + 1) : h = n + 1 \/ h \in 0..n
    BY <2>1
  <2>8. \A h \in 1..(n + 1) : h = n + 1 \/ (h \in 1..n /\ h \in 0..n)
    BY <2>1
  <2>9. 0..n \subseteq 0..(n + 1) /\ n + 1 \in 0..(n + 1)
    BY <2>1
  <2>10. ASSUME NEW v \in Accounts, Genesis[v] # Absent
         PROVE  /\ \/ set[v].lastReveal = Root
                   \/ \E h \in 0..(n + 1) :
                         longer[h].proposer = v /\ longer[h].reveal = set[v].lastReveal
                /\ \A h \in 0..(n + 1) : longer[h].proposer = v =>
                      longer[h].reveal \in Nat /\ longer[h].reveal <= set[v].lastReveal
    <3>1. CASE v = p
      <4>1. \E h \in 0..(n + 1) : longer[h].proposer = v /\ longer[h].reveal = set[v].lastReveal
        BY <1>13, <2>1, <2>6, <2>9, <3>1
      <4>2. ASSUME NEW h \in 0..(n + 1), longer[h].proposer = v
            PROVE  longer[h].reveal \in Nat /\ longer[h].reveal <= set[v].lastReveal
        <5>1. CASE h = n + 1
          BY <1>12, <1>13, <2>1, <3>1, <5>1
        <5>2. CASE h \in 0..n
          <6>1. line[h].reveal \in Nat /\ line[h].reveal <= old[v].lastReveal /\ longer[h] = line[h]
            BY <2>1, <2>3, <2>10, <4>2, <5>2
          <6> QED
            BY <1>11, <1>12, <1>13, <3>1, <6>1
        <5> QED
          BY <2>7, <5>1, <5>2
      <4> QED
        BY <4>1, <4>2
    <3>2. CASE v # p
      <4>1. set[v] = old[v] /\ \A h \in 0..(n + 1) : longer[h].proposer = v => h \in 0..n
        BY <1>13, <2>1, <2>6, <2>7, <3>2
      <4> QED
        BY <2>1, <2>2, <2>3, <2>9, <2>10, <4>1
    <3> QED
      BY <3>1, <3>2
  <2>11. \A h \in 1..(n + 1) :
            longer[h].proposer \in Accounts /\ Genesis[longer[h].proposer] # Absent
    BY <1>3, <1>11, <2>1, <2>4, <2>6, <2>8
  <2>12. ASSUME NEW i \in 1..(n + 1), NEW j \in 1..(n + 1), i < j,
                longer[i].proposer = longer[j].proposer
         PROVE  longer[i].reveal < longer[j].reveal
    <3>1. i \in 1..n /\ i \in 0..n /\ longer[i] = line[i]
      <4>1. i # n + 1
        BY <2>1, <2>12
      <4> QED
        BY <2>1, <2>8, <4>1
    <3>2. CASE j = n + 1
      <4>1. longer[j] = next /\ line[i].proposer = p
        BY <2>1, <2>6, <2>12, <3>1, <3>2
      <4>2. line[i].reveal \in Nat /\ line[i].reveal <= old[p].lastReveal
        BY <1>3, <1>11, <2>3, <3>1, <4>1
      <4> QED
        BY <1>11, <1>12, <3>1, <4>1, <4>2
    <3>3. CASE j \in 1..n /\ j \in 0..n
      BY <2>1, <2>5, <2>12, <3>1, <3>3
    <3> QED
      BY <2>8, <3>2, <3>3
  <2> QED
    BY <2>1, <2>10, <2>11, <2>12 DEF RevealsOf, longer
<1>16. reached \in ClaimableByAHeader
  BY DEF reached, ReachedRung, ClaimableByAHeader
<1> QED
  BY <1>1, <1>3, <1>6, <1>7, <1>8, <1>9, <1>10, <1>14, <1>15, <1>16 DEF Follower

\* Whatever reaches a node leaves it on a line of headers.
LEMMA DeliveredFollows ==
    ASSUME NEW state, Follower(state), NEW b, Typed(b)
    PROVE  Follower(ValidateAndApply(b, state))
<1> DEFINE applied == Working(b, state.ledger)
<1>1. CASE IsValid(b, state, applied)
  <2>1. ValidateAndApply(b, state) = After(b, state, applied)
    BY <1>1 DEF ValidateAndApply
  <2> HIDE DEF applied
  <2>2. Follower(After(b, state, applied))
    BY <1>1, AcceptedFollows DEF applied
  <2> QED
    BY <2>1, <2>2
<1>2. CASE ~ IsValid(b, state, applied)
  BY <1>2 DEF ValidateAndApply
<1> QED
  BY <1>1, <1>2

\* What a caller may put into a proposal on a node's tip.
Inputs(state) ==
    LET parent == state.tip
    IN  {[proposer |-> proposer, rung |-> rung, finalized |-> finalized,
          reveal |-> state.validators[proposer].lastReveal + ahead, emitted |-> emitted] :
            proposer \in Accounts, rung \in Rungs,
            finalized \in {parent.finalized, parent.height + 2},
            ahead \in {1, MaxRevealCatchup + 1},
            emitted \in {parent.emitted, PermittedThrough(EpochOfHeight(parent.height + 1))}}

\* A proposal holds what validation will ask for.
LEMMA ProposalIsBuilt ==
    ASSUME NEW state, Follower(state), state.tip.height < MaxHeight,
           NEW input \in Inputs(state), MayBuild(input, state.tip, state.validators),
           NEW candidates \in Candidates
    PROVE  Built(Build(input, candidates, state))
<1> DEFINE tip == state.tip
           height == tip.height + 1
           finalized == IF input.rung = Chain THEN height ELSE input.finalized
           context == [rung |-> input.rung, finalized |-> finalized]
           ledger == Housekeep(state.ledger, context.finalized)
           filled == IncludeAll(ledger, context, candidates)
           budget == SecurityBudget(state.validators)
           b == Build(input, candidates, state)
           header == b.header
<1>1. /\ tip.height \in 0..MaxHeight /\ tip.finalized \in 0..tip.height /\ tip.emitted \in Nat
      /\ state.ledger \in Ledgers /\ state.ledger = Replayed(tip)
      /\ StillGenesis(state.validators)
  BY DEF Follower
<1>2. PICK proposer \in Accounts, ahead \in {1, MaxRevealCatchup + 1} :
         /\ input.proposer = proposer
         /\ input.reveal = state.validators[proposer].lastReveal + ahead
         /\ input.finalized \in {tip.finalized, tip.height + 2}
         /\ input.emitted \in {tip.emitted, PermittedThrough(EpochOfHeight(height))}
  BY DEF Inputs
<1>3. /\ input.rung \in ClaimableByAHeader
      /\ IsActiveAt(Roster, proposer, BlockInEpoch(height))
      /\ IsKnown(state.validators, proposer)
      /\ input.finalized >= tip.finalized
      /\ CounterAllowed(tip.emitted, input.emitted, EpochOfHeight(height))
  BY <1>2 DEF MayBuild
<1>4. /\ filled = Fill(state.ledger, context, candidates)
      /\ context.rung = input.rung /\ context.finalized = finalized
  BY DEF Fill
<1>5. b = [header |-> [height |-> height, parent |-> Id(tip), rung |-> input.rung,
                       finalized |-> finalized, stateRoot |-> filled.ledger,
                       txRoot |-> Bodies(filled.txs), proposer |-> input.proposer,
                       reveal |-> input.reveal, emitted |-> input.emitted,
                       budget |-> IF budget = Absent THEN 0 ELSE budget,
                       ratio |-> FeeEmissionRatio(filled.ledger, input.emitted)],
           signer |-> input.proposer, txs |-> filled.txs, certificate |-> Absent]
  BY <1>4 DEF Build
<1> HIDE DEF b, filled, context, budget
<1>6. IsBlock(b)
  BY <1>5 DEF IsBlock, IsHeader
<1>7. /\ b.signer = input.proposer /\ b.txs = filled.txs /\ b.certificate = Absent
      /\ header.height = height /\ header.parent = Id(tip) /\ header.rung = input.rung
      /\ header.finalized = finalized /\ header.stateRoot = filled.ledger
      /\ header.txRoot = Bodies(filled.txs) /\ header.proposer = input.proposer
      /\ header.reveal = input.reveal /\ header.emitted = input.emitted
      /\ header.budget = (IF budget = Absent THEN 0 ELSE budget)
      /\ header.ratio = FeeEmissionRatio(filled.ledger, input.emitted)
  BY <1>5
<1> HIDE DEF header
<1>8. finalized \in Nat /\ finalized >= tip.finalized /\ height \in Nat
  BY <1>1, <1>2, <1>3
<1>9. input.emitted \in Nat
  <2>1. PermittedThrough(EpochOfHeight(height)) \in Nat
    BY <1>8, ScheduleIs
  <2> QED
    BY <1>1, <1>2, <2>1
<1>10. Genesis[proposer] # Absent /\ input.reveal \in Int
  <2>1. Genesis[proposer] # Absent /\ state.validators[proposer] \in ValidatorRecords
    BY <1>1, <1>3 DEF StillGenesis, IsKnown
  <2>2. state.validators[proposer].lastReveal \in Nat
    BY <2>1 DEF ValidatorRecords
  <2> QED
    BY <1>2, <2>1, <2>2, ChainAssumption
<1>11. filled \in Inclusions /\ ApplyAll(ledger, header, filled.txs) = filled.ledger
  <2>1. ledger \in Ledgers
    BY <1>1, HousekeepIs
  <2>2. candidates \in Seq(Transactions) /\ context.finalized \in Nat
    BY <1>4, <1>8, CandidatesAssumption
  <2>3. header.rung = context.rung /\ header.finalized = context.finalized
    BY <1>4, <1>7
  <2> HIDE DEF ledger
  <2> QED
    BY <2>1, <2>2, <2>3, IncludeAllLeaves DEF filled
<1>12. filled.ledger \in Ledgers /\ filled.txs \in Seq(Transactions)
  BY <1>11 DEF Inclusions
<1>13. Parent(header) = tip
  BY <1>7 DEF Parent, Id
<1>14. Typed(b)
  BY <1>2, <1>7, <1>8, <1>9, <1>10, <1>12, <1>13 DEF Typed, header
<1>15. header.stateRoot = Working(b, Replayed(tip))
  <2>1. Working(b, Replayed(tip)) =
           ApplyAll(Housekeep(Replayed(tip), header.finalized), header, b.txs)
    BY DEF Working, header
  <2>2. ledger = Housekeep(Replayed(tip), header.finalized)
    BY <1>1, <1>4, <1>7
  <2> QED
    BY <1>7, <1>11, <2>1, <2>2
<1>16. SecurityBudget(Genesis) # Absent => header.budget = SecurityBudget(Genesis)
  BY <1>1, <1>7, BudgetIs DEF budget
<1>17. header.rung = Chain => header.finalized = header.height
  BY <1>7
<1> HIDE DEF height, finalized, ledger
<1>18. /\ b.signer = header.proposer /\ tip.height \in Nat /\ header.height = tip.height + 1
       /\ header.rung \in ClaimableByAHeader /\ header.finalized >= tip.finalized
       /\ CounterAllowed(tip.emitted, header.emitted, EpochOfHeight(header.height))
       /\ IsActiveAt(Roster, header.proposer, BlockInEpoch(header.height))
       /\ Genesis[header.proposer] # Absent
       /\ header.txRoot = Bodies(b.txs)
       /\ header.ratio = FeeEmissionRatio(header.stateRoot, header.emitted)
       /\ header.stateRoot \in Ledgers
  BY <1>1, <1>2, <1>3, <1>7, <1>8, <1>10, <1>12 DEF height
<1> HIDE DEF tip
<1>19. Built(b)
  BY <1>6, <1>7, <1>13, <1>14, <1>15, <1>16, <1>17, <1>18 DEF Built, header
<1> QED
  BY <1>19 DEF b

LEMMA NodeInit == Init => NodeInv
<1> SUFFICES ASSUME Init PROVE NodeInv
  OBVIOUS
<1>1. node = [n \in Nodes |-> GenesisState] /\ published = {}
  BY DEF Init
<1>2. IsFiniteSet({}) /\ Cardinality({}) = 0 /\ 0 <= MaxPublished
  BY FS_EmptySet, ChainAssumption
<1> QED
  BY <1>1, <1>2, GenesisFollows DEF NodeInv

LEMMA NodeStep == NodeInv /\ [Next]_vars => NodeInv'
<1> SUFFICES ASSUME NodeInv, [Next]_vars PROVE NodeInv'
  OBVIOUS
<1>1. /\ DOMAIN node = Nodes /\ \A n \in Nodes : Follower(node[n])
      /\ IsFiniteSet(published) /\ Cardinality(published) <= MaxPublished
      /\ \A b \in published : Built(b)
  BY DEF NodeInv
<1>2. ASSUME NEW n \in Nodes, Propose(n) PROVE NodeInv'
  <2> DEFINE state == node[n]
  <2>1. /\ state.tip.height < MaxHeight /\ Cardinality(published) < MaxPublished
        /\ UNCHANGED node
    BY <1>2 DEF Propose
  <2>2. PICK input \in Inputs(state), candidates \in Candidates :
           /\ MayBuild(input, state.tip, state.validators)
           /\ published' = published \cup {Build(input, candidates, state)}
    BY <1>2 DEF Propose, Inputs
  <2>3. Follower(state)
    BY <1>1, <1>2
  <2> HIDE DEF state
  <2> DEFINE b == Build(input, candidates, state)
  <2>4. Built(b)
    BY <2>1, <2>2, <2>3, ProposalIsBuilt
  <2>5. published' = published \cup {b}
    BY <2>2
  <2> HIDE DEF b
  <2>6. IsFiniteSet(published') /\ Cardinality(published') <= MaxPublished
    <3>1. Cardinality(published) \in Nat
      BY <1>1, FS_CardinalityType
    <3>2. IsFiniteSet(published \cup {b})
      BY <1>1, FS_AddElement
    <3>3. Cardinality(published \cup {b}) = Cardinality(published)
             \/ Cardinality(published \cup {b}) = Cardinality(published) + 1
      BY <1>1, FS_AddElement
    <3> QED
      BY <2>1, <2>5, <3>1, <3>2, <3>3, ChainAssumption
  <2> QED
    BY <1>1, <2>1, <2>4, <2>5, <2>6 DEF NodeInv
<1>3. ASSUME NEW n \in Nodes, Deliver(n) PROVE NodeInv'
  <2>1. PICK b \in published : \E arrived \in Deliverable(b) :
           node' = [node EXCEPT ![n] = ValidateAndApply(arrived, @)]
    BY <1>3 DEF Deliver
  <2>2. PICK arrived \in Deliverable(b) :
           node' = [node EXCEPT ![n] = ValidateAndApply(arrived, @)]
    BY <2>1
  <2>3. Typed(arrived)
    BY <1>1, ArrivedIsTyped
  <2>4. Follower(ValidateAndApply(arrived, node[n]))
    BY <1>1, <2>3, DeliveredFollows
  <2>5. UNCHANGED published
    BY <1>3 DEF Deliver
  <2>6. DOMAIN node' = Nodes /\ \A m \in Nodes : Follower(node'[m])
    BY <1>1, <2>2, <2>4
  <2> QED
    BY <1>1, <2>5, <2>6 DEF NodeInv
<1>4. ASSUME NEW n \in Nodes, Restart(n) PROVE NodeInv'
  <2>1. UNCHANGED published /\ node' = [node EXCEPT ![n] = GenesisState]
    BY <1>4 DEF Restart
  <2>2. DOMAIN node' = Nodes /\ \A m \in Nodes : Follower(node'[m])
    BY <1>1, <2>1, GenesisFollows
  <2> QED
    BY <1>1, <2>1, <2>2 DEF NodeInv
<1>5. CASE UNCHANGED vars
  BY <1>1, <1>5 DEF NodeInv, vars
<1> QED
  BY <1>2, <1>3, <1>4, <1>5 DEF Next

LEMMA NodeHolds == Spec => []NodeInv
BY NodeInit, NodeStep, PTL DEF Spec

----------------------------------------------------------------------------
(* The theorems. *)

\* The tip, the ledger, the validators and the rung of every node are of their
\* types, and no more blocks are published than the bound allows.
THEOREM NodeTypeCorrect == Spec => []TypeOK
<1>1. NodeInv => TypeOK
  BY DEF NodeInv, TypeOK, Follower, StillGenesis
<1> QED
  BY <1>1, NodeHolds, PTL

\* A node's ledger is the replay of the headers behind its tip, and what it
\* holds a validator to is that validator's last reveal among them: refused and
\* repeated blocks and restarts leave no trace (validate_and_apply).
THEOREM StateFollowsItsBranch == Spec => []StateIsItsBranch
<1>1. NodeInv => StateIsItsBranch
  <2> SUFFICES ASSUME NodeInv, NEW n \in Nodes
               PROVE  /\ node[n].ledger = Replayed(node[n].tip)
                      /\ \A v \in Accounts : IsKnown(Genesis, v) =>
                            node[n].validators[v].lastReveal =
                              Max({Root} \cup {header.reveal : header \in
                                      {h \in Range(Line(node[n].tip)) : h.proposer = v}})
    BY DEF StateIsItsBranch
  <2> DEFINE tip == node[n].tip
             line == Line(tip)
             set == node[n].validators
  <2>1. /\ Grounded(tip) /\ node[n].ledger = Replayed(tip)
        /\ RevealsOf(tip, set) /\ StillGenesis(set)
    BY DEF NodeInv, Follower
  <2>2. ASSUME NEW v \in Accounts, IsKnown(Genesis, v)
        PROVE  set[v].lastReveal =
                  Max({Root} \cup {header.reveal : header \in
                          {h \in Range(line) : h.proposer = v}})
    <3> DEFINE R == {header.reveal : header \in {h \in Range(line) : h.proposer = v}}
               S == {Root} \cup R
               r == set[v].lastReveal
    <3>1. Genesis[v] # Absent
      BY <2>2 DEF IsKnown
    <3>2. r \in Nat
      BY <2>1, <3>1 DEF StillGenesis, ValidatorRecords
    <3>3. /\ r = Root \/ \E h \in 0..tip.height : line[h].proposer = v /\ line[h].reveal = r
          /\ \A h \in 0..tip.height : line[h].proposer = v =>
                line[h].reveal \in Nat /\ line[h].reveal <= r
      BY <2>1, <3>1 DEF RevealsOf
    <3>4. DOMAIN line = 0..tip.height /\ tip.height \in Nat
      BY <2>1 DEF Grounded, IsLine
    <3>5. R = {line[h].reveal : h \in {i \in 0..tip.height : line[i].proposer = v}}
      BY <3>4 DEF Range
    <3>6. \A x \in R : x \in Nat /\ x <= r
      BY <3>3, <3>5
    <3>7. r \in S
      BY <3>3, <3>5
    <3>8. \A x \in S : x \in Nat /\ x <= r
      BY <3>2, <3>6 DEF Root
    <3>9. IsFiniteSet(S)
      <4>1. IsFiniteSet(0..r)
        BY <3>2, FS_Interval
      <4>2. S \subseteq 0..r
        BY <3>2, <3>8
      <4> HIDE DEF S
      <4> QED
        BY <4>1, <4>2, FS_Subset
    <3>10. S \subseteq Int /\ S # {}
      BY <3>7, <3>8
    <3> HIDE DEF S, r
    <3>11. Max(S) \in S /\ \A x \in S : x <= Max(S)
      BY <3>9, <3>10, MaxIsLargest
    <3>12. Max(S) <= r /\ r <= Max(S) /\ Max(S) \in Nat
      BY <3>7, <3>8, <3>11
    <3>13. Max(S) = r
      BY <3>2, <3>12
    <3> QED
      BY <3>13 DEF S, r
  <2> QED
    BY <2>1, <2>2
<1> QED
  BY <1>1, NodeHolds, PTL

\* On a branch a proposer's reveals rise with the height (the reveal of run).
THEOREM RevealsNeverRepeat == Spec => []RevealsOnlyAdvance
<1>1. NodeInv => RevealsOnlyAdvance
  BY DEF NodeInv, Follower, RevealsOf, RevealsOnlyAdvance
<1> QED
  BY <1>1, NodeHolds, PTL

\* The counter that a tip carries is at most the sum of what every epoch up to
\* its own emits (permitted_through, check_counter).
THEOREM EmissionKeepsToSchedule == Spec => []EmissionWithinSchedule
<1>1. NodeInv => EmissionWithinSchedule
  BY DEF NodeInv, Follower, EmissionWithinSchedule, Scheduled
<1> QED
  BY <1>1, NodeHolds, PTL

\* Two headers convict a validator that signs only what it proposes only if
\* both are blocks it published (EquivocationEvidence).
THEOREM EvidenceIsFair == Spec => []EvidenceNeedsTwoBlocks
<1>1. NodeInv => EvidenceNeedsTwoBlocks
  <2> DEFINE presentable == published \cup UNION {Altered(block) : block \in published}
  <2> SUFFICES ASSUME NodeInv, NEW first \in presentable, NEW second \in presentable,
                      NEW v \in Accounts \ Faulty, IsEquivocation(v, first, second)
               PROVE  \E b, c \in published :
                         /\ b.header # c.header /\ b.header.height = c.header.height
                         /\ b.header.proposer = v /\ c.header.proposer = v
    BY DEF EvidenceNeedsTwoBlocks
  <2>1. ASSUME NEW x \in presentable, x.header.proposer = v, x.signer = v
        PROVE  x \in published
    <3> SUFFICES ASSUME NEW b \in published, x \in Altered(b) PROVE FALSE
      OBVIOUS
    <3>1. IsBlock(b)
      BY DEF NodeInv, Built
    <3>2. PICK h : x = [b EXCEPT !.header = h,
                           !.signer = IF h.proposer \in Faulty THEN h.proposer ELSE Absent]
      BY DEF Altered
    <3>3. x.header = h /\ x.signer = IF h.proposer \in Faulty THEN h.proposer ELSE Absent
      BY <3>1, <3>2 DEF IsBlock
    <3> QED
      BY <2>1, <3>3, ValidatorsAssumption
  <2>2. /\ first.header.height = second.header.height /\ first.header # second.header
        /\ first.header.proposer = v /\ second.header.proposer = v
        /\ first.signer = v /\ second.signer = v
    BY DEF IsEquivocation
  <2>3. first \in published /\ second \in published
    BY <2>1, <2>2
  <2> QED
    BY <2>2, <2>3
<1> QED
  BY <1>1, NodeHolds, PTL

\* What build makes, validation accepts, on every node at the same parent
\* (propose.rs and the checks of run, in their order).
THEOREM ProposalsAreValid == Spec => []ProposalsValidate
<1>1. NodeInv => ProposalsValidate
  <2> SUFFICES ASSUME NodeInv, NEW b \in published, NEW n \in Nodes,
                      b.header.parent = Id(node[n].tip),
                      b.header.finalized <= b.header.height,
                      AlgorithmAllowed(b.header.proposer),
                      RevealAdvances(b.header, node[n].validators),
                      SecurityBudget(node[n].validators) # Absent
               PROVE  ValidateAndApply(b, node[n]).tip = b.header
    BY DEF ProposalsValidate
  <2> DEFINE state == node[n]
             tip == state.tip
             header == b.header
             applied == Working(b, state.ledger)
  <2>1. Built(b) /\ Follower(state)
    BY DEF NodeInv
  <2>2. Parent(header) = tip
    BY DEF Parent, Id
  <2>3. state.ledger = Replayed(tip) /\ StillGenesis(state.validators)
    BY <2>1 DEF Follower
  <2>4. applied = header.stateRoot /\ header.stateRoot \in Ledgers
    BY <2>1, <2>2, <2>3 DEF Built
  <2>5. applied # Absent
    BY <2>4, LedgersAssumption
  <2>6. header.emitted <= SupplyCap
    BY <2>1 DEF Built, CounterAllowed
  <2>7. SelfConsistent(header)
    <3>1. header.height # 0 /\ header.parent # ZeroId
      BY <2>1 DEF Built, Id, ZeroId
    <3> QED
      BY <2>1, <2>6, <3>1 DEF Built, SelfConsistent
  <2>8. Follows(header, tip)
    BY <2>1, <2>2 DEF Built, Follows
  <2>9. ProposerEntitled(b, Roster, state.validators)
    <3>1. IsKnown(state.validators, header.proposer)
      BY <2>1, <2>3 DEF Built, Typed, StillGenesis, IsKnown
    <3> QED
      BY <2>1, <3>1 DEF Built, ProposerEntitled
  <2>10. CertificateAcceptable(b, state.validators)
    BY <2>1 DEF Built, CertificateAcceptable
  <2>11. header.budget = SecurityBudget(state.validators)
    BY <2>1, <2>3, BudgetIs DEF Built
  <2>12. header.txRoot = Bodies(b.txs) /\ header.ratio = FeeEmissionRatio(applied, header.emitted)
    BY <2>1, <2>4 DEF Built
  <2> HIDE DEF applied, state
  <2>13. IsValid(b, state, applied)
    BY <2>4, <2>5, <2>7, <2>8, <2>9, <2>10, <2>11, <2>12 DEF IsValid, state
  <2>14. ValidateAndApply(b, state) = After(b, state, applied)
    BY <2>13 DEF ValidateAndApply, applied
  <2> QED
    BY <2>14 DEF After, state
<1> QED
  BY <1>1, NodeHolds, PTL

=============================================================================
