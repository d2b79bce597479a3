----------------------------- MODULE WireProofs -----------------------------
(***************************************************************************)
(* Proofs about the canonical encoding: what a decoder takes is the only   *)
(* encoding of the value it takes it for, for every schema, and a value is *)
(* read back from its encoding.                                            *)
(***************************************************************************)
EXTENDS Wire, SumTheorems, SequenceTheorems

----------------------------------------------------------------------------
(* Numbers and their digits. *)

\* The number with low digit c above which stands x.
LEMMA Digits ==
    ASSUME NEW d \in Nat \ {0}, NEW x \in Nat, NEW c \in 0..(d - 1)
    PROVE  (c + d * x) % d = c /\ (c + d * x) \div d = x
<1> DEFINE n == c + d * x
           q == n \div d
           r == n % d
<1>1. n \in Nat
  OBVIOUS
<1>2. n = d * q + r /\ q \in Int /\ r \in 0..(d - 1)
  <2> HIDE DEF n
  <2> QED
    BY <1>1
<1> HIDE DEF q, r
<1>3. c - r = d * (q - x) /\ c - r < d /\ r - c < d
  BY <1>2
<1>4. CASE q = x
  <2>1. d * (q - x) = 0
    BY <1>2, <1>4
  <2> QED
    BY <1>2, <1>3, <1>4, <2>1 DEF q, r
<1>5. CASE q > x
  <2>1. d * (q - x) >= d
    BY <1>2, <1>5
  <2> QED
    BY <1>2, <1>3, <2>1
<1>6. CASE q < x
  <2>1. d * (q - x) <= 0 - d
    BY <1>2, <1>6
  <2> QED
    BY <1>2, <1>3, <2>1
<1> QED
  BY <1>2, <1>4, <1>5, <1>6

\* A number is its low digit and what stands above it, which is less.
LEMMA Above ==
    ASSUME NEW d \in Nat \ {0, 1}, NEW n \in Nat
    PROVE  /\ n \div d \in Nat /\ n % d \in 0..(d - 1)
           /\ n = (n % d) + d * (n \div d)
           /\ n >= d => n \div d \in 1..(n - 1)
<1> DEFINE q == n \div d
           r == n % d
<1>1. n = d * q + r /\ q \in Int /\ r \in 0..(d - 1)
  OBVIOUS
<1> HIDE DEF q, r
<1>2. q >= 0
  <2> SUFFICES ASSUME q < 0
               PROVE  FALSE
    BY <1>1
  <2>1. d * q <= 0 - d
    BY <1>1
  <2> QED
    BY <1>1, <2>1
<1>3. ASSUME n >= d
      PROVE  q \in 1..(n - 1)
  <2>1. q # 0
    <3> SUFFICES ASSUME q = 0
                 PROVE  FALSE
      OBVIOUS
    <3>1. d * q = 0
      OBVIOUS
    <3> QED
      BY <1>1, <1>3, <3>1
  <2>2. d * q >= 2 * q
    BY <1>1, <1>2
  <2> QED
    BY <1>1, <1>2, <2>1, <2>2
<1> QED
  BY <1>1, <1>2, <1>3 DEF q, r

\* h raises Radix up to the n-th power.
Powers(h, n) == h = [d \in 0..n |-> IF d = 0 THEN 1 ELSE Radix * h[d - 1]]

\* Power is what its definition says.
LEMMA PowersAre == MaxVarintBytes \in Nat => Powers(Power, MaxVarintBytes)
<1> SUFFICES ASSUME MaxVarintBytes \in Nat
             PROVE  Powers(Power, MaxVarintBytes)
  OBVIOUS
<1> DEFINE n == MaxVarintBytes
           B == {m \in 0..n : \E h : Powers(h, m)}
<1>1. 0 \in B
  <2>1. Powers([d \in 0..0 |-> 1], 0)
    BY DEF Powers
  <2> QED
    BY <2>1
<1>2. ASSUME NEW m \in 1..n, m - 1 \in B
      PROVE  m \in B
  <2>1. PICK h : Powers(h, m - 1)
    BY <1>2
  <2> DEFINE g == [d \in 0..m |-> IF d = m THEN Radix * h[m - 1] ELSE h[d]]
  <2>2. ASSUME NEW d \in 0..m
        PROVE  g[d] = IF d = 0 THEN 1 ELSE Radix * g[d - 1]
    <3>1. CASE d = m
      <4>1. d - 1 \in 0..m /\ d - 1 # m /\ d # 0
        BY <3>1
      <4> QED
        BY <3>1, <4>1
    <3>2. CASE d # m
      <4>1. d \in 0..(m - 1) /\ (d # 0 => d - 1 \in 0..m /\ d - 1 # m)
        BY <3>2
      <4>2. h[d] = IF d = 0 THEN 1 ELSE Radix * h[d - 1]
        BY <2>1, <4>1 DEF Powers
      <4>3. g[d] = h[d] /\ (d # 0 => g[d - 1] = h[d - 1])
        BY <3>2, <4>1
      <4> HIDE DEF g
      <4> QED
        BY <4>2, <4>3
    <3> QED
      BY <3>1, <3>2
  <2>3. g = [d \in 0..m |-> g[d]]
    OBVIOUS
  <2> HIDE DEF g
  <2>4. Powers(g, m)
    BY <2>2, <2>3 DEF Powers
  <2> QED
    BY <2>4
<1>3. n \in B
  <2>1. n \in Nat
    OBVIOUS
  <2>2. \A m \in 1..n : m - 1 \in B => m \in B
    BY <1>2
  <2> HIDE DEF B, n
  <2>3. \A m \in 0..n : m \in B
    BY <1>1, <2>1, <2>2, Climb
  <2> QED
    BY <2>1, <2>3
<1>4. PICK h : Powers(h, n)
  BY <1>3
<1> QED
  BY <1>4, Zenon DEF Power, Powers

\* Powers of Radix, one after another.
LEMMA PowerIs ==
    /\ Power[0] = 1
    /\ \A i \in 1..MaxVarintBytes : Power[i] = Radix * Power[i - 1]
    /\ \A i \in 0..MaxVarintBytes : Power[i] \in Nat \ {0}
<1>1. MaxVarintBytes \in Nat /\ Radix \in Nat \ {0}
  BY CodecAssumption
<1>2. /\ Power[0] = 1
      /\ \A i \in 1..MaxVarintBytes : Power[i] = Radix * Power[i - 1]
  BY <1>1, PowersAre DEF Powers
<1> DEFINE B == {i \in 0..MaxVarintBytes : Power[i] \in Nat \ {0}}
<1>3. 0 \in B
  BY <1>1, <1>2
<1>4. \A i \in 1..MaxVarintBytes : i - 1 \in B => i \in B
  BY <1>1, <1>2
<1> HIDE DEF B
<1>5. \A i \in 0..MaxVarintBytes : i \in B
  BY <1>1, <1>3, <1>4, Climb
<1> QED
  BY <1>2, <1>5 DEF B

\* h spells the numbers up to n.
Spelled(h, n) ==
    h = [d \in 0..n |-> IF d < Radix THEN <<d>>
                        ELSE <<Radix + (d % Radix)>> \o h[d \div Radix]]

\* Varint is what its definition says.
LEMMA VarintIs ==
    \A n \in 0..(U64 - 1) :
       Varint[n] = IF n < Radix THEN <<n>>
                   ELSE <<Radix + (n % Radix)>> \o Varint[n \div Radix]
<1> DEFINE top == U64 - 1
           B == {m \in 0..top : \E h : Spelled(h, m)}
<1>0. top \in Nat /\ Radix \in Nat \ {0, 1}
  BY CodecAssumption
<1> HIDE DEF top
<1>1. 0 \in B
  <2>1. Spelled([d \in 0..0 |-> <<d>>], 0)
    BY <1>0 DEF Spelled
  <2> QED
    BY <1>0, <2>1
<1>2. ASSUME NEW m \in 1..top, m - 1 \in B
      PROVE  m \in B
  <2>1. PICK h : Spelled(h, m - 1)
    BY <1>2
  <2> DEFINE last == IF m < Radix THEN <<m>> ELSE <<Radix + (m % Radix)>> \o h[m \div Radix]
             g == [d \in 0..m |-> IF d = m THEN last ELSE h[d]]
  <2>2. ASSUME NEW d \in 0..m
        PROVE  g[d] = IF d < Radix THEN <<d>>
                      ELSE <<Radix + (d % Radix)>> \o g[d \div Radix]
    <3>1. d >= Radix => d \div Radix \in 0..(d - 1)
      <4>1. d \in Nat
        OBVIOUS
      <4>2. d >= Radix => d \div Radix \in 1..(d - 1)
        BY <1>0, <4>1, Above
      <4> QED
        BY <4>1, <4>2
    <3>2. d >= Radix => d \div Radix \in 0..m /\ d \div Radix # m /\ g[d \div Radix] = h[d \div Radix]
      BY <3>1
    <3>3. CASE d = m
      BY <1>0, <3>2, <3>3
    <3>4. CASE d # m
      <4>1. d \in 0..(m - 1) /\ g[d] = h[d]
        BY <3>4
      <4>2. h[d] = IF d < Radix THEN <<d>>
                   ELSE <<Radix + (d % Radix)>> \o h[d \div Radix]
        BY <2>1, <4>1 DEF Spelled
      <4> HIDE DEF g
      <4> QED
        BY <1>0, <3>2, <4>1, <4>2
    <3> QED
      BY <3>3, <3>4
  <2>3. g = [d \in 0..m |-> g[d]]
    OBVIOUS
  <2> HIDE DEF g
  <2>4. Spelled(g, m)
    BY <2>2, <2>3 DEF Spelled
  <2> QED
    BY <2>4
<1>3. top \in B
  <2>1. \A m \in 1..top : m - 1 \in B => m \in B
    BY <1>2
  <2> HIDE DEF B
  <2>2. \A m \in 0..top : m \in B
    BY <1>0, <1>1, <2>1, Climb
  <2> QED
    BY <1>0, <2>2
<1>4. PICK h : Spelled(h, top)
  BY <1>3
<1>5. Spelled(Varint, top)
  BY <1>4, Zenon DEF Varint, Spelled, top
<1> QED
  BY <1>5 DEF Spelled, top

\* h adds up the digits of s from the last n of them.
Sums(h, s, n) ==
    h = [d \in 0..n |-> IF d = 0 THEN 0 ELSE (s[Len(s) + 1 - d] % Radix) + Radix * h[d - 1]]

\* There are such sums, and the last of them is the payload.
LEMMA SumsAre ==
    ASSUME NEW s, Len(s) \in Nat
    PROVE  \E h : Sums(h, s, Len(s)) /\ Payload(s) = h[Len(s)]
<1> DEFINE run == CHOOSE h : Sums(h, s, Len(s))
<1> DEFINE n == Len(s)
           B == {m \in 0..n : \E h : Sums(h, s, m)}
<1>1. 0 \in B
  <2>1. Sums([d \in 0..0 |-> 0], s, 0)
    BY DEF Sums
  <2> QED
    BY <2>1
<1>2. ASSUME NEW m \in 1..n, m - 1 \in B
      PROVE  m \in B
  <2>1. PICK h : Sums(h, s, m - 1)
    BY <1>2
  <2> DEFINE g == [d \in 0..m |-> IF d = m THEN (s[Len(s) + 1 - m] % Radix) + Radix * h[m - 1] ELSE h[d]]
  <2>2. ASSUME NEW d \in 0..m
        PROVE  g[d] = IF d = 0 THEN 0 ELSE (s[Len(s) + 1 - d] % Radix) + Radix * g[d - 1]
    <3>1. CASE d = m
      <4>1. d - 1 \in 0..m /\ d - 1 # m /\ d # 0
        BY <3>1
      <4> QED
        BY <3>1, <4>1
    <3>2. CASE d # m
      <4>1. d \in 0..(m - 1) /\ (d # 0 => d - 1 \in 0..m /\ d - 1 # m)
        BY <3>2
      <4>2. h[d] = IF d = 0 THEN 0 ELSE (s[Len(s) + 1 - d] % Radix) + Radix * h[d - 1]
        BY <2>1, <4>1 DEF Sums
      <4>3. g[d] = h[d] /\ (d # 0 => g[d - 1] = h[d - 1])
        BY <3>2, <4>1
      <4> HIDE DEF g
      <4> QED
        BY <4>2, <4>3
    <3> QED
      BY <3>1, <3>2
  <2>3. g = [d \in 0..m |-> g[d]]
    OBVIOUS
  <2> HIDE DEF g
  <2>4. Sums(g, s, m)
    BY <2>2, <2>3 DEF Sums
  <2> QED
    BY <2>4
<1>3. n \in B
  <2>1. n \in Nat
    OBVIOUS
  <2>2. \A m \in 1..n : m - 1 \in B => m \in B
    BY <1>2
  <2> HIDE DEF B, n
  <2>3. \A m \in 0..n : m \in B
    BY <1>1, <2>1, <2>2, Climb
  <2> QED
    BY <2>1, <2>3
<1>4. PICK h : Sums(h, s, n)
  BY <1>3
<1>5. Sums(run, s, n)
  BY <1>4, Zenon
<1>6. Payload(s) = run[n]
  BY Zenon DEF Payload, Sums
<1> QED
  BY <1>5, <1>6

\* The payload of a byte string is a number.
LEMMA PayloadIsNumber ==
    ASSUME NEW s \in Seq(Byte)
    PROVE  Payload(s) \in Nat
<1> DEFINE n == Len(s)
<1>1. n \in Nat /\ Radix \in Nat \ {0, 1}
  BY CodecAssumption
<1>2. PICK h : Sums(h, s, n) /\ Payload(s) = h[n]
  BY <1>1, SumsAre
<1>3. \A d \in 1..n : s[n + 1 - d] % Radix \in Nat
  <2> SUFFICES ASSUME NEW d \in 1..n
               PROVE  s[n + 1 - d] % Radix \in Nat
    OBVIOUS
  <2>1. s[n + 1 - d] \in Nat
    <3>1. s[n + 1 - d] \in Byte
      OBVIOUS
    <3> QED
      BY <1>1, <3>1 DEF Byte
  <2> QED
    BY <1>1, <2>1
<1> DEFINE B == {d \in 0..n : h[d] \in Nat}
<1> HIDE DEF n
<1>4. 0 \in B
  BY <1>1, <1>2 DEF Sums
<1>5. ASSUME NEW d \in 1..n, d - 1 \in B
      PROVE  d \in B
  <2>1. h[d] = (s[Len(s) + 1 - d] % Radix) + Radix * h[d - 1]
    <3>1. d \in 0..n /\ d # 0
      BY <1>1
    <3> QED
      BY <1>2, <3>1 DEF Sums
  <2>2. s[Len(s) + 1 - d] % Radix \in Nat
    BY <1>3 DEF n
  <2>3. h[d] \in Nat
    BY <1>1, <1>5, <2>1, <2>2
  <2> QED
    BY <2>3
<1> HIDE DEF B
<1>6. \A d \in 0..n : d \in B
  BY <1>1, <1>4, <1>5, Climb
<1> QED
  BY <1>1, <1>2, <1>6 DEF B

\* What a byte in front of a string adds.
LEMMA PayloadCons ==
    ASSUME NEW c \in Byte, NEW s \in Seq(Byte)
    PROVE  Payload(<<c>> \o s) = (c % Radix) + Radix * Payload(s)
<1> DEFINE t == <<c>> \o s
           n == Len(s)
<1>1. /\ n \in Nat /\ t \in Seq(Byte) /\ Len(t) = n + 1
      /\ t[1] = c
      /\ \A d \in 1..n : t[Len(t) + 1 - d] = s[n + 1 - d]
  <2>1. <<c>> \in Seq(Byte) /\ Len(<<c>>) = 1 /\ <<c>>[1] = c
    OBVIOUS
  <2>2. /\ t \in Seq(Byte) /\ Len(t) = n + 1
        /\ \A i \in 1..(n + 1) : t[i] = IF i <= 1 THEN <<c>>[i] ELSE s[i - 1]
    BY <2>1, ConcatProperties
  <2>3. n \in Nat
    OBVIOUS
  <2> HIDE DEF t, n
  <2>4. t[1] = c
    BY <2>1, <2>2, <2>3
  <2>5. ASSUME NEW d \in 1..n
        PROVE  t[Len(t) + 1 - d] = s[n + 1 - d]
    <3>1. n + 2 - d \in 1..(n + 1) /\ ~(n + 2 - d <= 1) /\ (n + 2 - d) - 1 = n + 1 - d
      BY <2>3
    <3>2. t[n + 2 - d] = s[n + 1 - d]
      BY <2>2, <3>1
    <3>3. Len(t) + 1 - d = n + 2 - d
      BY <2>2, <2>3
    <3> QED
      BY <3>2, <3>3
  <2> QED
    BY <2>2, <2>3, <2>4, <2>5
<1> HIDE DEF t
<1>2. PICK h : Sums(h, s, n) /\ Payload(s) = h[n]
  BY <1>1, SumsAre
<1>3. PICK g : Sums(g, t, Len(t)) /\ Payload(t) = g[Len(t)]
  <2>1. Len(t) \in Nat
    BY <1>1
  <2> QED
    BY <2>1, SumsAre
<1> DEFINE B == {d \in 0..n : g[d] = h[d]}
<1>4. 0 \in B
  BY <1>1, <1>2, <1>3 DEF Sums
<1>5. ASSUME NEW d \in 1..n, d - 1 \in B
      PROVE  d \in B
  <2>1. h[d] = (s[n + 1 - d] % Radix) + Radix * h[d - 1]
    BY <1>1, <1>2 DEF Sums
  <2>2. g[d] = (t[Len(t) + 1 - d] % Radix) + Radix * g[d - 1]
    <3>1. d \in 0..Len(t) /\ d # 0
      BY <1>1
    <3> QED
      BY <1>3, <3>1 DEF Sums
  <2>3. t[Len(t) + 1 - d] = s[n + 1 - d] /\ g[d - 1] = h[d - 1]
    BY <1>1, <1>5
  <2> QED
    BY <2>1, <2>2, <2>3
<1> HIDE DEF B
<1>6. \A d \in 0..n : d \in B
  BY <1>1, <1>4, <1>5, Climb
<1>7. g[n] = h[n]
  BY <1>1, <1>6 DEF B
<1>8. g[n + 1] = (t[Len(t) + 1 - (n + 1)] % Radix) + Radix * g[(n + 1) - 1]
  <2>1. n + 1 \in 0..Len(t) /\ n + 1 # 0
    BY <1>1
  <2> QED
    BY <1>3, <2>1, Zenon DEF Sums
<1>9. Len(t) + 1 - (n + 1) = 1 /\ (n + 1) - 1 = n
  BY <1>1
<1> QED
  BY <1>1, <1>2, <1>3, <1>7, <1>8, <1>9 DEF t

\* The payload of no bytes.
LEMMA PayloadOfNone == Payload(<<>>) = 0
<1>1. Len(<<>>) = 0
  OBVIOUS
<1>2. PICK h : Sums(h, <<>>, 0) /\ Payload(<<>>) = h[0]
  BY <1>1, SumsAre
<1> QED
  BY <1>2 DEF Sums

----------------------------------------------------------------------------
(* Varints. *)

\* A varint in its shortest form.
Canonical(s) ==
    /\ s \in Seq(Byte) /\ s # <<>>
    /\ s[Len(s)] < Radix
    /\ \A i \in 1..(Len(s) - 1) : s[i] >= Radix
    /\ Len(s) = 1 \/ s[Len(s)] # 0

\* The byte of a small number.
LEMMA OneByte ==
    ASSUME NEW n \in 0..(Radix - 1)
    PROVE  Canonical(<<n>>) /\ Payload(<<n>>) = n
<1>1. Radix \in Nat \ {0, 1}
  BY CodecAssumption
<1>2. n \in Byte /\ n % Radix = n
  BY <1>1 DEF Byte
<1>3. Canonical(<<n>>)
  <2>1. <<n>> \in Seq(Byte) /\ Len(<<n>>) = 1 /\ <<n>>[1] = n /\ <<n>> # <<>>
    BY <1>2
  <2> QED
    BY <1>1, <2>1 DEF Canonical
<1>4. <<n>> \o <<>> = <<n>>
  <2>1. <<n>> \in Seq(Byte)
    BY <1>2
  <2> QED
    BY <2>1, ConcatEmptySeq
<1>5. Payload(<<n>> \o <<>>) = (n % Radix) + Radix * 0
  <2>1. <<>> \in Seq(Byte)
    OBVIOUS
  <2> QED
    BY <1>2, <2>1, PayloadCons, PayloadOfNone
<1> QED
  BY <1>1, <1>2, <1>3, <1>4, <1>5

\* A byte in front of a varint.
LEMMA ConsCanonical ==
    ASSUME NEW c \in Byte, NEW s, s \in Seq(Byte), s # <<>>
    PROVE  /\ <<c>> \o s \in Seq(Byte) /\ Len(<<c>> \o s) = Len(s) + 1
           /\ (<<c>> \o s)[1] = c /\ (<<c>> \o s)[Len(s) + 1] = s[Len(s)]
           /\ Canonical(<<c>> \o s) <=> c >= Radix /\ Canonical(s) /\ s[Len(s)] # 0
<1> DEFINE t == <<c>> \o s
           n == Len(s)
<1>1. n \in Nat \ {0}
  OBVIOUS
<1>2. /\ t \in Seq(Byte) /\ Len(t) = n + 1
      /\ \A i \in 1..(n + 1) : t[i] = IF i <= 1 THEN c ELSE s[i - 1]
  <2>1. <<c>> \in Seq(Byte) /\ Len(<<c>>) = 1 /\ <<c>>[1] = c
    OBVIOUS
  <2>2. /\ t \in Seq(Byte) /\ Len(t) = n + 1
        /\ \A i \in 1..(n + 1) : t[i] = IF i <= 1 THEN <<c>>[i] ELSE s[i - 1]
    BY <2>1, ConcatProperties
  <2>3. \A i \in 1..(n + 1) : i <= 1 => i = 1
    BY <1>1
  <2> HIDE DEF t, n
  <2> QED
    BY <2>1, <2>2, <2>3
<1> HIDE DEF t
<1>3. t[1] = c /\ t[n + 1] = s[n]
  <2>1. 1 \in 1..(n + 1) /\ n + 1 \in 1..(n + 1) /\ ~(n + 1 <= 1) /\ (n + 1) - 1 = n
    BY <1>1
  <2> QED
    BY <1>2, <2>1
<1>4. t # <<>>
  BY <1>1, <1>2
<1>5. (\A i \in 1..n : t[i] >= Radix) <=> c >= Radix /\ \A i \in 1..(n - 1) : s[i] >= Radix
  <2>1. ASSUME \A i \in 1..n : t[i] >= Radix
        PROVE  c >= Radix /\ \A i \in 1..(n - 1) : s[i] >= Radix
    <3>1. c >= Radix
      BY <1>1, <1>3, <2>1
    <3>2. ASSUME NEW i \in 1..(n - 1)
          PROVE  s[i] >= Radix
      <4>1. i + 1 \in 1..n /\ i + 1 \in 1..(n + 1) /\ ~(i + 1 <= 1) /\ (i + 1) - 1 = i
        BY <1>1
      <4> QED
        BY <1>2, <2>1, <4>1
    <3> QED
      BY <3>1, <3>2
  <2>2. ASSUME c >= Radix, \A i \in 1..(n - 1) : s[i] >= Radix, NEW i \in 1..n
        PROVE  t[i] >= Radix
    <3>1. CASE i = 1
      BY <1>3, <2>2, <3>1
    <3>2. CASE i # 1
      <4>1. i - 1 \in 1..(n - 1) /\ ~(i <= 1) /\ i \in 1..(n + 1)
        BY <1>1, <3>2
      <4> QED
        BY <1>2, <2>2, <4>1
    <3> QED
      BY <3>1, <3>2
  <2> QED
    BY <2>1, <2>2
<1>6. (n + 1) - 1 = n /\ n + 1 # 1
  BY <1>1
<1>7. Canonical(t) <=> c >= Radix /\ Canonical(s) /\ s[n] # 0
  BY <1>2, <1>3, <1>4, <1>5, <1>6 DEF Canonical
<1> QED
  BY <1>2, <1>3, <1>7 DEF t

\* What the encoder writes is in the shortest form and stands for the number.
LEMMA VarintIsCanonical ==
    \A n \in 0..(U64 - 1) :
       /\ Canonical(Varint[n]) /\ Payload(Varint[n]) = n
       /\ n # 0 => Varint[n][Len(Varint[n])] # 0
<1> DEFINE Good(n) == /\ Canonical(Varint[n]) /\ Payload(Varint[n]) = n
                      /\ n # 0 => Varint[n][Len(Varint[n])] # 0
           top == U64 - 1
           B == {m \in 0..top : \A n \in 0..m : Good(n)}
<1>0. top \in Nat /\ Radix \in Nat \ {0, 1}
  BY CodecAssumption
<1>1. ASSUME NEW n \in 0..top, n < Radix
      PROVE  Good(n)
  <2>1. Varint[n] = <<n>>
    BY <1>1, VarintIs
  <2>2. n \in 0..(Radix - 1) /\ <<n>>[Len(<<n>>)] = n
    BY <1>0, <1>1
  <2> QED
    BY <2>1, <2>2, OneByte
<1>2. ASSUME NEW n \in 0..top, n >= Radix, Good(n \div Radix)
      PROVE  Good(n)
  <2> DEFINE q == n \div Radix
             c == Radix + (n % Radix)
             s == Varint[q]
  <2>0. n \in Nat /\ ~(n < Radix) /\ n \in 0..(U64 - 1)
    BY <1>0, <1>2
  <2>1. q \in 1..(n - 1) /\ n % Radix \in 0..(Radix - 1) /\ n = (n % Radix) + Radix * q
    BY <1>0, <1>2, <2>0, Above
  <2>2. Varint[n] = <<c>> \o s
    BY <2>0, VarintIs
  <2>3. c \in Byte /\ c >= Radix
    BY <1>0, <2>1 DEF Byte
  <2>4. c % Radix = n % Radix
    <3>1. c = (n % Radix) + Radix * 1
      BY <1>0, <2>1
    <3> QED
      BY <1>0, <2>1, <3>1, Digits
  <2>5. s \in Seq(Byte) /\ s # <<>> /\ Canonical(s) /\ Payload(s) = q /\ s[Len(s)] # 0
    <3>1. q # 0
      BY <2>1
    <3> QED
      BY <1>2, <3>1 DEF Canonical
  <2> HIDE DEF s, q
  <2>6. Canonical(<<c>> \o s) /\ Len(<<c>> \o s) = Len(s) + 1 /\ (<<c>> \o s)[Len(s) + 1] # 0
    BY <2>3, <2>5, ConsCanonical
  <2>7. Payload(<<c>> \o s) = (c % Radix) + Radix * Payload(s)
    BY <2>3, <2>5, PayloadCons
  <2> QED
    BY <2>1, <2>2, <2>4, <2>5, <2>6, <2>7
<1> HIDE DEF Good, top
<1>3. 0 \in B
  BY <1>0, <1>1
<1>4. ASSUME NEW m \in 1..top, m - 1 \in B
      PROVE  m \in B
  <2>1. Good(m)
    <3>1. CASE m < Radix
      BY <1>0, <1>1, <3>1
    <3>2. CASE m >= Radix
      <4>1. m \div Radix \in 0..(m - 1)
        <5>1. m \in Nat
          OBVIOUS
        <5>2. m \div Radix \in 1..(m - 1)
          BY <1>0, <3>2, <5>1, Above
        <5> QED
          BY <5>1, <5>2
      <4> QED
        BY <1>0, <1>2, <1>4, <3>2, <4>1
    <3> QED
      BY <1>0, <3>1, <3>2
  <2>2. \A n \in 0..m : n \in 0..(m - 1) \/ n = m
    BY <1>0
  <2> QED
    BY <1>4, <2>1, <2>2
<1> HIDE DEF B
<1>5. \A m \in 0..top : m \in B
  BY <1>0, <1>3, <1>4, Climb
<1>6. top \in B
  BY <1>0, <1>5
<1>7. \A n \in 0..top : Good(n)
  BY <1>6 DEF B
<1> QED
  BY <1>7 DEF Good, top

\* A string of bytes without its first.
LEMMA Behead ==
    ASSUME NEW s \in Seq(Byte), Len(s) >= 2
    PROVE  /\ s[1] \in Byte /\ Tail(s) \in Seq(Byte) /\ Tail(s) # <<>>
           /\ Len(Tail(s)) = Len(s) - 1 /\ s = <<s[1]>> \o Tail(s)
<1>1. s # <<>> /\ Len(s) \in Nat
  OBVIOUS
<1>2. Tail(s) \in Seq(Byte) /\ Len(Tail(s)) = Len(s) - 1 /\ Tail(s) = SubSeq(s, 2, Len(s))
  BY <1>1, HeadTailProperties, TailIsSubSeq
<1>3. s[1] \in Byte
  OBVIOUS
<1>4. Tail(s) # <<>>
  <2>1. Len(Tail(s)) # 0 /\ Len(<<>>) = 0
    BY <1>1, <1>2
  <2> QED
    BY <2>1
<1>5. SubSeq(s, 1, Len(s)) = <<s[1]>> \o SubSeq(s, 1 + 1, Len(s))
  BY <1>1, SubSeqRecursiveFirst
<1>6. SubSeq(s, 1, Len(s)) = s /\ 1 + 1 = 2
  BY SubSeqFull
<1> QED
  BY <1>2, <1>3, <1>4, <1>5, <1>6

\* The shortest form of a number is the one the encoder writes.
LEMMA CanonicalIsVarint ==
    ASSUME NEW s, Canonical(s), Payload(s) < U64
    PROVE  Varint[Payload(s)] = s
<1> DEFINE Good(t) == /\ t[Len(t)] # 0 => Payload(t) >= 1
                      /\ Payload(t) < U64 => Varint[Payload(t)] = t
           n == Len(s)
           B == {k \in 0..n : \A t \in Seq(Byte) : Canonical(t) /\ Len(t) = k => Good(t)}
<1>0. U64 \in Nat /\ Radix \in Nat \ {0, 1} /\ n \in Nat
  BY CodecAssumption DEF Canonical
<1>1. 0 \in B
  <2>1. \A t \in Seq(Byte) : Canonical(t) => Len(t) # 0
    BY DEF Canonical
  <2> QED
    BY <1>0, <2>1
<1>2. ASSUME NEW k \in 1..n, k - 1 \in B
      PROVE  k \in B
  <2> SUFFICES ASSUME NEW t \in Seq(Byte), Canonical(t), Len(t) = k
               PROVE  Good(t)
    OBVIOUS
  <2>1. CASE k = 1
    <3>1. t = <<t[1]>> /\ t[1] \in Byte /\ t[1] < Radix
      BY <2>1 DEF Canonical
    <3>2. t[1] \in 0..(Radix - 1)
      BY <1>0, <3>1 DEF Byte
    <3>3. Payload(<<t[1]>>) = t[1]
      BY <3>2, OneByte
    <3>4. Payload(t) = t[1] /\ t[Len(t)] = t[1]
      BY <2>1, <3>1, <3>3
    <3>5. ASSUME Payload(t) < U64
          PROVE  Varint[Payload(t)] = t
      <4>1. t[1] \in 0..(U64 - 1)
        BY <1>0, <3>2, <3>4, <3>5
      <4>2. Varint[t[1]] = <<t[1]>>
        BY <3>1, <4>1, VarintIs
      <4> QED
        BY <3>1, <3>4, <4>2
    <3> QED
      BY <1>0, <3>2, <3>4, <3>5
  <2>2. CASE k # 1
    <3> DEFINE c == t[1]
               u == Tail(t)
    <3>1. c \in Byte /\ u \in Seq(Byte) /\ u # <<>> /\ Len(u) = k - 1 /\ t = <<c>> \o u
      BY <2>2, Behead
    <3> HIDE DEF c, u
    <3>2. Canonical(u) /\ c >= Radix /\ u[Len(u)] # 0
      BY <3>1, ConsCanonical
    <3>3. Good(u)
      BY <1>2, <3>1, <3>2
    <3>4. Payload(t) = (c % Radix) + Radix * Payload(u)
      BY <3>1, PayloadCons
    <3>5. Payload(u) \in Nat /\ Payload(u) >= 1 /\ c \in Nat /\ c >= Radix /\ c < 2 * Radix
      BY <1>0, <3>1, <3>2, <3>3, PayloadIsNumber DEF Byte
    <3>6. c % Radix = c - Radix
      <4> DEFINE m == c - Radix
      <4>1. c = m + Radix * 1 /\ m \in 0..(Radix - 1)
        BY <1>0, <3>5
      <4> HIDE DEF m
      <4>2. (m + Radix * 1) % Radix = m
        BY <1>0, <4>1, Digits
      <4> QED
        BY <4>1, <4>2, Zenon DEF m
    <3> DEFINE x == Payload(u)
               low == c - Radix
    <3>7. low \in 0..(Radix - 1) /\ x \in Nat \ {0} /\ Payload(t) = low + Radix * x
      BY <1>0, <3>4, <3>5, <3>6
    <3> HIDE DEF x, low
    <3>8. Radix * x >= x /\ Radix * x >= Radix
      BY <1>0, <3>7
    <3>9. Payload(t) \in Nat /\ Payload(t) >= Radix /\ Payload(t) >= x
      <4>1. Radix * x \in Nat
        BY <1>0, <3>7
      <4> QED
        BY <1>0, <3>7, <3>8, <4>1
    <3>10. Payload(t) % Radix = low /\ Payload(t) \div Radix = x
      BY <1>0, <3>7, Digits
    <3>11. ASSUME Payload(t) < U64
           PROVE  Varint[Payload(t)] = t
      <4>1. Payload(t) \in 0..(U64 - 1) /\ x < U64 /\ ~(Payload(t) < Radix)
        BY <1>0, <3>7, <3>9, <3>11
      <4>2. Varint[Payload(t)] = <<Radix + low>> \o Varint[x]
        BY <3>10, <4>1, VarintIs
      <4>3. Varint[x] = u
        BY <3>3, <4>1 DEF x
      <4>4. Radix + low = c
        BY <1>0, <3>5 DEF low
      <4> QED
        BY <3>1, <4>2, <4>3, <4>4
    <3> QED
      BY <1>0, <3>9, <3>11
  <2> QED
    BY <2>1, <2>2
<1> HIDE DEF B
<1>3. \A k \in 0..n : k \in B
  <2> HIDE DEF n
  <2> QED
    BY <1>0, <1>1, <1>2, Climb
<1>4. n \in B
  BY <1>0, <1>3
<1> QED
  BY <1>4 DEF B, Canonical

\* A number below the k-th power of Radix is written in k bytes.
LEMMA VarintLength ==
    \A k \in 1..MaxVarintBytes : \A n \in 0..(U64 - 1) :
       n < Power[k] => Len(Varint[n]) <= k
<1> DEFINE top == MaxVarintBytes - 1
           B == {k \in 0..top : \A n \in 0..(U64 - 1) : n < Power[k + 1] => Len(Varint[n]) <= k + 1}
<1>0. top \in Nat /\ Radix \in Nat \ {0, 1} /\ U64 \in Nat /\ MaxVarintBytes \in Nat
  BY CodecAssumption
<1>1. ASSUME NEW n \in 0..(U64 - 1), n < Radix
      PROVE  Len(Varint[n]) = 1
  <2>1. Varint[n] = <<n>>
    BY <1>1, VarintIs
  <2> QED
    BY <2>1
<1>2. 0 \in B
  <2>1. Power[1] = Radix * 1
    <3>1. 1 \in 1..MaxVarintBytes /\ 1 - 1 = 0
      BY <1>0
    <3> QED
      BY <3>1, PowerIs
  <2>2. Power[0 + 1] = Radix
    BY <1>0, <2>1
  <2>3. ASSUME NEW n \in 0..(U64 - 1), n < Power[0 + 1]
        PROVE  Len(Varint[n]) <= 0 + 1
    <3>1. n < Radix
      BY <2>2, <2>3
    <3>2. Len(Varint[n]) = 1
      BY <1>1, <3>1
    <3> QED
      BY <3>2
  <2>4. 0 \in 0..top
    BY <1>0
  <2> QED
    BY <2>3, <2>4
<1>3. ASSUME NEW k \in 1..top, k - 1 \in B
      PROVE  k \in B
  <2> SUFFICES ASSUME NEW n \in 0..(U64 - 1), n < Power[k + 1]
               PROVE  Len(Varint[n]) <= k + 1
    BY <1>0
  <2>1. CASE n < Radix
    <3>1. Len(Varint[n]) = 1
      BY <1>1, <2>1
    <3>2. 1 <= k + 1
      BY <1>0
    <3> QED
      BY <3>1, <3>2
  <2>2. CASE n >= Radix
    <3> DEFINE q == n \div Radix
               s == Varint[q]
               c == Radix + (n % Radix)
    <3>0. n \in Nat /\ ~(n < Radix)
      BY <1>0, <2>2
    <3>1. q \in 1..(n - 1) /\ n % Radix \in 0..(Radix - 1) /\ n = (n % Radix) + Radix * q
      BY <1>0, <2>2, <3>0, Above
    <3>2. Power[k + 1] = Radix * Power[k] /\ Power[k] \in Nat
      <4>1. k + 1 \in 1..MaxVarintBytes /\ (k + 1) - 1 = k /\ k \in 0..MaxVarintBytes
        BY <1>0
      <4> QED
        BY <4>1, PowerIs
    <3>3. Varint[n] = <<c>> \o s
      BY <3>0, VarintIs
    <3>4. q \in 0..(U64 - 1)
      BY <1>0, <3>0, <3>1
    <3>5. Canonical(s) /\ s \in Seq(Byte) /\ s # <<>>
      BY <3>4, VarintIsCanonical DEF Canonical
    <3>6. c \in Byte
      BY <1>0, <3>1 DEF Byte
    <3> HIDE DEF q, s, c
    <3>7. q < Power[k]
      <4> DEFINE p == Power[k]
      <4> HIDE DEF p
      <4> SUFFICES ASSUME q >= p
                   PROVE  FALSE
        BY <1>0, <3>0, <3>1, <3>2 DEF p
      <4>1. Radix * q - Radix * p = Radix * (q - p) /\ Radix * (q - p) >= 0
        BY <1>0, <3>1, <3>2 DEF p
      <4>2. n < Radix * p /\ Radix * p \in Nat /\ Radix * q \in Nat
        BY <1>0, <3>0, <3>1, <3>2 DEF p
      <4> QED
        BY <1>0, <3>0, <3>1, <4>1, <4>2
    <3>8. Len(s) <= k
      <4>1. (k - 1) + 1 = k
        BY <1>0
      <4> QED
        BY <1>3, <3>4, <3>7, <4>1 DEF s
    <3>9. Len(<<c>> \o s) = Len(s) + 1 /\ Len(s) \in Nat
      BY <3>5, <3>6, ConsCanonical
    <3> QED
      BY <1>0, <3>3, <3>8, <3>9
  <2> QED
    BY <1>0, <2>1, <2>2
<1> HIDE DEF B, top
<1>4. \A k \in 0..top : k \in B
  BY <1>0, <1>2, <1>3, Climb
<1> SUFFICES ASSUME NEW k \in 1..MaxVarintBytes, NEW n \in 0..(U64 - 1), n < Power[k]
             PROVE  Len(Varint[n]) <= k
  OBVIOUS
<1>5. k - 1 \in 0..top /\ (k - 1) + 1 = k
  BY <1>0 DEF top
<1>6. k - 1 \in B
  BY <1>4, <1>5
<1> QED
  BY <1>5, <1>6 DEF B

\* What is read of a varint: a number and the end of its only encoding.
LEMMA VarintRead ==
    ASSUME NEW b \in Seq(Byte), NEW at \in 0..Len(b), NEW r \in ReadVarint(b, at)
    PROVE  /\ r.value \in 0..(U64 - 1) /\ r.next \in (at + 1)..Len(b)
           /\ Varint[r.value] = SubSeq(b, at + 1, r.next)
           /\ r = Reading(r.value, r.next)
           /\ r.next \in {i \in (at + 1)..Len(b) : b[i] < Radix}
           /\ \A i \in (at + 1)..Len(b) : b[i] < Radix => r.next <= i
<1> DEFINE ends == {i \in (at + 1)..Len(b) : b[i] < Radix}
           last == Min(ends)
           s == SubSeq(b, at + 1, last)
<1>0. Len(b) \in Nat /\ at \in Nat /\ Radix \in Nat \ {0, 1} /\ U64 \in Nat
  BY CodecAssumption
<1>1. r \in AnyVarint(b, at) /\ (r.next = at + 1 \/ b[r.next] # 0)
  BY DEF ReadVarint
<1>2. ends # {} /\ Payload(s) < U64 /\ r = Reading(Payload(s), last)
  BY <1>1 DEF AnyVarint
<1>3. r.value = Payload(s) /\ r.next = last /\ r = Reading(r.value, r.next)
  BY <1>2 DEF Reading
<1>4. last \in ends /\ \A i \in ends : last <= i
  <2>1. ends \subseteq Int
    BY <1>0
  <2>2. IsFiniteSet((at + 1)..Len(b))
    BY <1>0, FS_Interval
  <2>3. IsFiniteSet(ends)
    BY <2>2, FS_Subset
  <2> HIDE DEF ends
  <2> QED
    BY <1>2, <2>1, <2>3, MinIsSmallest
<1> HIDE DEF last
<1>5. last \in (at + 1)..Len(b) /\ b[last] < Radix
  BY <1>4
<1>6. \A i \in (at + 1)..(last - 1) : b[i] >= Radix
  <2> SUFFICES ASSUME NEW i \in (at + 1)..(last - 1)
               PROVE  b[i] >= Radix
    OBVIOUS
  <2>1. i \in (at + 1)..Len(b) /\ ~(last <= i)
    BY <1>0, <1>5
  <2>2. i \notin ends
    BY <1>4, <2>1
  <2>3. b[i] \in Byte
    BY <1>0, <2>1
  <2> QED
    BY <1>0, <2>1, <2>2, <2>3 DEF Byte
<1>7. /\ s \in Seq(Byte) /\ Len(s) = last - at
      /\ \A i \in 1..(last - at) : s[i] = b[at + i]
  <2>1. at + 1 \in Int /\ last \in Int /\ at + 1 <= last /\ last - (at + 1) + 1 = last - at
    BY <1>0, <1>5
  <2>2. \A i \in (at + 1)..last : b[i] \in Byte
    BY <1>0, <1>5
  <2>3. /\ s \in Seq(Byte) /\ Len(s) = last - (at + 1) + 1
        /\ \A i \in 1..(last - (at + 1) + 1) : s[i] = b[at + 1 + i - 1]
    BY <2>1, <2>2, SubSeqProperties
  <2>4. \A i \in 1..(last - at) : at + 1 + i - 1 = at + i
    BY <1>0, <1>5
  <2> HIDE DEF s
  <2> QED
    BY <2>1, <2>3, <2>4
<1> HIDE DEF s
<1>8. Canonical(s)
  <2> DEFINE n == last - at
  <2>1. n \in Nat \ {0} /\ at + n = last
    BY <1>0, <1>5
  <2>2. s[n] = b[last]
    BY <1>7, <2>1
  <2>3. \A i \in 1..(n - 1) : s[i] >= Radix
    <3> SUFFICES ASSUME NEW i \in 1..(n - 1)
                 PROVE  s[i] >= Radix
      OBVIOUS
    <3>1. i \in 1..n /\ at + i \in (at + 1)..(last - 1)
      BY <1>0, <1>5
    <3> QED
      BY <1>6, <1>7, <3>1
  <2>4. n = 1 \/ s[n] # 0
    BY <1>0, <1>1, <1>3, <1>5, <2>2
  <2>5. s # <<>>
    BY <1>7, <2>1
  <2> QED
    BY <1>5, <1>7, <2>2, <2>3, <2>4, <2>5 DEF Canonical
<1>9. Varint[Payload(s)] = s /\ Payload(s) \in 0..(U64 - 1)
  BY <1>0, <1>2, <1>7, <1>8, CanonicalIsVarint, PayloadIsNumber
<1> QED
  BY <1>2, <1>3, <1>4, <1>5, <1>9 DEF s

\* A varint is read in one way only.
LEMMA VarintReadOnce ==
    ASSUME NEW b \in Seq(Byte), NEW at \in 0..Len(b),
           NEW r \in ReadVarint(b, at), NEW q \in ReadVarint(b, at)
    PROVE  r = q
BY DEF ReadVarint, AnyVarint

\* A number's encoding is read as that number.
LEMMA VarintIsRead ==
    ASSUME NEW b \in Seq(Byte), NEW at \in 0..Len(b), NEW n \in 0..(U64 - 1),
           at + Len(Varint[n]) <= Len(b),
           SubSeq(b, at + 1, at + Len(Varint[n])) = Varint[n]
    PROVE  Reading(n, at + Len(Varint[n])) \in ReadVarint(b, at)
<1> DEFINE s == Varint[n]
           k == Len(s)
           ends == {i \in (at + 1)..Len(b) : b[i] < Radix}
<1>0. Len(b) \in Nat /\ at \in Nat /\ Radix \in Nat \ {0, 1} /\ U64 \in Nat /\ MaxVarintBytes \in Nat \ {0}
  BY CodecAssumption
<1>1. Canonical(s) /\ Payload(s) = n
  BY VarintIsCanonical
<1>2. s \in Seq(Byte) /\ k \in Nat \ {0}
  BY <1>1 DEF Canonical
<1>3. k <= MaxVarintBytes
  <2>1. n < Power[MaxVarintBytes] /\ MaxVarintBytes \in 1..MaxVarintBytes
    <3>1. Power[MaxVarintBytes] \in Nat
      BY <1>0, PowerIs
    <3>2. U64 < Power[MaxVarintBytes]
      BY CodecAssumption
    <3> QED
      BY <1>0, <3>1, <3>2
  <2> QED
    BY <2>1, VarintLength
<1> HIDE DEF s, k
<1>4. \A i \in 1..k : b[at + i] = s[i]
  <2>1. at + 1 \in Int /\ at + k \in Int /\ at + k <= Len(b)
    BY <1>0, <1>2 DEF k, s
  <2>2. \A i \in (at + 1)..(at + k) : b[i] \in Byte
    BY <1>0, <2>1
  <2>3. \A i \in 1..((at + k) - (at + 1) + 1) : SubSeq(b, at + 1, at + k)[i] = b[at + 1 + i - 1]
    BY <2>1, <2>2, SubSeqProperties
  <2>4. SubSeq(b, at + 1, at + k) = s
    BY DEF k, s
  <2>5. \A i \in 1..k : i \in 1..((at + k) - (at + 1) + 1) /\ at + 1 + i - 1 = at + i
    BY <1>0, <1>2
  <2> QED
    BY <2>3, <2>4, <2>5
<1> DEFINE last == at + k
<1>5. last \in (at + 1)..Len(b)
  BY <1>0, <1>2 DEF k, s
<1>6. last \in ends
  <2>1. b[last] = s[k] /\ s[k] < Radix
    BY <1>1, <1>2, <1>4 DEF Canonical, k
  <2> QED
    BY <1>5, <2>1
<1>7. \A i \in ends : last <= i
  <2> SUFFICES ASSUME NEW i \in ends, i < last
               PROVE  FALSE
    BY <1>0, <1>2
  <2>1. i - at \in 1..(k - 1) /\ at + (i - at) = i /\ i - at \in 1..k
    BY <1>0, <1>2
  <2>2. b[i] = s[i - at] /\ s[i - at] >= Radix
    BY <1>1, <1>4, <2>1 DEF Canonical, k
  <2>3. b[i] \in Byte /\ b[i] < Radix
    BY <1>0
  <2> QED
    BY <1>0, <2>2, <2>3 DEF Byte
<1>8. Min(ends) = last
  <2>1. ends \subseteq Int /\ ends # {}
    BY <1>0, <1>6
  <2>2. IsFiniteSet((at + 1)..Len(b))
    BY <1>0, FS_Interval
  <2>3. IsFiniteSet(ends)
    BY <2>2, FS_Subset
  <2>4. last \in Int
    BY <1>5
  <2> HIDE DEF ends, last
  <2>5. Min(ends) \in ends /\ \A i \in ends : Min(ends) <= i
    BY <2>1, <2>3, MinIsSmallest
  <2>6. Min(ends) \in Int /\ Min(ends) <= last /\ last <= Min(ends)
    BY <1>6, <1>7, <2>1, <2>5
  <2> QED
    BY <2>4, <2>6
<1>9. last - at <= MaxVarintBytes /\ SubSeq(b, at + 1, last) = s /\ Payload(s) < U64
  BY <1>0, <1>1, <1>2, <1>3 DEF k, s
<1>10. Reading(n, last) \in AnyVarint(b, at)
  <2> HIDE DEF last
  <2> QED
    BY <1>1, <1>6, <1>8, <1>9 DEF AnyVarint
<1>11. last = at + 1 \/ b[last] # 0
  <2>1. b[last] = s[k] /\ (k = 1 \/ s[k] # 0)
    BY <1>1, <1>2, <1>4 DEF Canonical, k
  <2> QED
    BY <2>1
<1>12. Reading(n, last).next = last
  BY DEF Reading
<1> QED
  BY <1>10, <1>11, <1>12 DEF ReadVarint, k, s

\* Part of a byte string.
LEMMA Slice ==
    ASSUME NEW b \in Seq(Byte), NEW i \in 0..Len(b), NEW j \in i..Len(b)
    PROVE  /\ SubSeq(b, i + 1, j) \in Seq(Byte) /\ Len(SubSeq(b, i + 1, j)) = j - i
           /\ \A k \in 1..(j - i) : SubSeq(b, i + 1, j)[k] = b[i + k]
<1>0. Len(b) \in Nat /\ i \in Nat /\ j \in Nat /\ i <= j /\ j <= Len(b)
  OBVIOUS
<1>1. \A k \in (i + 1)..j : b[k] \in Byte
  BY <1>0
<1>2. i + 1 \in Int /\ j \in Int
  BY <1>0
<1>3. /\ SubSeq(b, i + 1, j) \in Seq(Byte)
      /\ Len(SubSeq(b, i + 1, j)) = IF i + 1 <= j THEN j - (i + 1) + 1 ELSE 0
      /\ \A k \in 1..(j - (i + 1) + 1) : SubSeq(b, i + 1, j)[k] = b[i + 1 + k - 1]
  BY <1>1, <1>2, SubSeqProperties
<1>4. (IF i + 1 <= j THEN j - (i + 1) + 1 ELSE 0) = j - i /\ j - (i + 1) + 1 = j - i
  BY <1>0
<1>5. \A k \in 1..(j - i) : i + 1 + k - 1 = i + k
  BY <1>0
<1> QED
  BY <1>3, <1>4, <1>5

\* Adjacent parts of a byte string.
LEMMA SlicesJoin ==
    ASSUME NEW b \in Seq(Byte), NEW i \in 0..Len(b), NEW j \in i..Len(b), NEW k \in j..Len(b)
    PROVE  SubSeq(b, i + 1, j) \o SubSeq(b, j + 1, k) = SubSeq(b, i + 1, k)
<1>1. i + 1 \in 1..(Len(b) + 1) /\ j \in ((i + 1) - 1)..Len(b) /\ k \in j..Len(b)
  OBVIOUS
<1> QED
  BY <1>1, ConcatAdjacentSubSeq

\* What is read of a length: a varint within its bounds.
LEMMA LengthRead ==
    ASSUME NEW b \in Seq(Byte), NEW at \in 0..Len(b), NEW limit \in Nat,
           NEW r \in ReadLength(b, at, limit)
    PROVE  /\ r.value \in 0..(U64 - 1) /\ r.value <= limit
           /\ r.next \in (at + 1)..Len(b) /\ r.next + r.value <= Len(b)
           /\ Varint[r.value] = SubSeq(b, at + 1, r.next)
<1>1. r \in ReadVarint(b, at) /\ r.value <= limit /\ r.value <= Len(b) - r.next
  BY DEF ReadLength
<1>2. /\ r.value \in 0..(U64 - 1) /\ r.next \in (at + 1)..Len(b)
      /\ Varint[r.value] = SubSeq(b, at + 1, r.next)
  BY <1>1, VarintRead
<1>3. Len(b) \in Nat
  OBVIOUS
<1> QED
  BY <1>1, <1>2, <1>3

\* What is taken: the bytes that follow.
LEMMA Taken ==
    ASSUME NEW b \in Seq(Byte), NEW at \in 0..Len(b), NEW width \in Nat,
           NEW r \in Take(b, at, width)
    PROVE  /\ r.next = at + width /\ r.next \in at..Len(b)
           /\ r.value = SubSeq(b, at + 1, r.next)
           /\ r.value \in [1..width -> Byte]
           /\ r.value \in Seq(Byte) /\ Len(r.value) = width
<1>1. at + width <= Len(b) /\ r = Reading(SubSeq(b, at + 1, at + width), at + width)
  BY DEF Take
<1>2. r.next = at + width /\ r.value = SubSeq(b, at + 1, at + width)
  BY <1>1 DEF Reading
<1>3. at + width \in at..Len(b)
  BY <1>1
<1>4. r.value \in Seq(Byte) /\ Len(r.value) = (at + width) - at
  BY <1>2, <1>3, Slice
<1>5. (at + width) - at = width /\ at + width <= Len(b)
  BY <1>1
<1> DEFINE v == r.value
<1>6. v \in [1..Len(v) -> Byte]
  BY <1>4, LenProperties
<1> QED
  BY <1>2, <1>3, <1>4, <1>5, <1>6

----------------------------------------------------------------------------
(* Lists, of whatever elements. *)

List(s) == \E D : s \in Seq(D)

\* What a list is.
LEMMA ListIs ==
    ASSUME NEW s, List(s)
    PROVE  Len(s) \in Nat /\ DOMAIN s = 1..Len(s) /\ s = [i \in 1..Len(s) |-> s[i]]
           /\ (Len(s) = 0 <=> s = <<>>)
<1>1. PICK D : s \in Seq(D)
  BY DEF List
<1>2. Len(s) \in Nat /\ DOMAIN s = 1..Len(s) /\ s \in [1..Len(s) -> D]
  BY <1>1, LenProperties
<1>3. Len(s) = 0 <=> s = <<>>
  BY <1>1, EmptySeq
<1>4. s = [i \in 1..Len(s) |-> s[i]]
  BY <1>2
<1> QED
  BY <1>2, <1>3, <1>4

\* A function on the first numbers is a list.
LEMMA ListOf ==
    ASSUME NEW n \in Nat, NEW s, s = [i \in 1..n |-> s[i]]
    PROVE  List(s) /\ Len(s) = n
<1> DEFINE D == {s[i] : i \in 1..n}
<1>1. s \in [1..n -> D]
  OBVIOUS
<1> HIDE DEF D
<1>2. s \in Seq(D) /\ Len(s) = n
  BY <1>1
<1> QED
  BY <1>2 DEF List

\* Lists with the same elements are the same.
LEMMA ListEqual ==
    ASSUME NEW s, NEW t, List(s), List(t), Len(s) = Len(t),
           \A i \in 1..Len(s) : s[i] = t[i]
    PROVE  s = t
<1>1. s = [i \in 1..Len(s) |-> s[i]] /\ t = [i \in 1..Len(t) |-> t[i]]
  BY ListIs
<1>2. [i \in 1..Len(s) |-> s[i]] = [i \in 1..Len(t) |-> t[i]]
  OBVIOUS
<1> QED
  BY <1>1, <1>2

\* Two lists end to end.
LEMMA ListConcat ==
    ASSUME NEW s, NEW t, List(s), List(t)
    PROVE  /\ List(s \o t) /\ Len(s \o t) = Len(s) + Len(t)
           /\ \A i \in 1..Len(s) : (s \o t)[i] = s[i]
           /\ \A i \in 1..Len(t) : (s \o t)[Len(s) + i] = t[i]
<1>1. PICK D : s \in Seq(D)
  BY DEF List
<1>2. PICK E : t \in Seq(E)
  BY DEF List
<1> DEFINE U == D \cup E
<1>3. s \in Seq(U)
  <2>1. D \subseteq U
    OBVIOUS
  <2> HIDE DEF U
  <2> QED
    BY <1>1, <2>1, SeqMonotonic
<1>4. t \in Seq(U)
  <2>1. E \subseteq U
    OBVIOUS
  <2> HIDE DEF U
  <2> QED
    BY <1>2, <2>1, SeqMonotonic
<1> HIDE DEF U
<1>5. /\ s \o t \in Seq(U) /\ Len(s \o t) = Len(s) + Len(t)
      /\ \A i \in 1..(Len(s) + Len(t)) :
            (s \o t)[i] = IF i <= Len(s) THEN s[i] ELSE t[i - Len(s)]
  BY <1>3, <1>4, ConcatProperties
<1>6. Len(s) \in Nat /\ Len(t) \in Nat
  BY ListIs
<1>7. ASSUME NEW i \in 1..Len(s)
      PROVE  (s \o t)[i] = s[i]
  <2>1. i \in 1..(Len(s) + Len(t)) /\ i <= Len(s)
    BY <1>6
  <2> QED
    BY <1>5, <2>1
<1>8. ASSUME NEW i \in 1..Len(t)
      PROVE  (s \o t)[Len(s) + i] = t[i]
  <2>1. /\ Len(s) + i \in 1..(Len(s) + Len(t)) /\ ~(Len(s) + i <= Len(s))
        /\ (Len(s) + i) - Len(s) = i
    BY <1>6
  <2> QED
    BY <1>5, <2>1
<1> QED
  BY <1>5, <1>7, <1>8 DEF List

\* A list that starts as s and goes on as t is the two end to end.
LEMMA ListSplits ==
    ASSUME NEW s, NEW t, NEW u, List(s), List(t), List(u), Len(u) = Len(s) + Len(t),
           \A i \in 1..Len(s) : u[i] = s[i],
           \A i \in 1..Len(t) : u[Len(s) + i] = t[i]
    PROVE  u = s \o t
<1>1. Len(s) \in Nat /\ Len(t) \in Nat
  BY ListIs
<1> DEFINE v == s \o t
<1>2. /\ List(v) /\ Len(v) = Len(s) + Len(t)
      /\ \A i \in 1..Len(s) : v[i] = s[i]
      /\ \A i \in 1..Len(t) : v[Len(s) + i] = t[i]
  BY ListConcat
<1> HIDE DEF v
<1>3. ASSUME NEW i \in 1..Len(u)
      PROVE  u[i] = v[i]
  <2>1. CASE i <= Len(s)
    <3>1. i \in 1..Len(s)
      BY <1>1, <2>1
    <3> QED
      BY <1>2, <3>1
  <2>2. CASE i > Len(s)
    <3> DEFINE j == i - Len(s)
    <3>1. j \in 1..Len(t) /\ Len(s) + j = i
      BY <1>1, <2>2
    <3> HIDE DEF j
    <3>2. u[Len(s) + j] = t[j] /\ v[Len(s) + j] = t[j]
      BY <1>2, <3>1
    <3> QED
      BY <3>1, <3>2
  <2> QED
    BY <1>1, <2>1, <2>2
<1>4. u = v
  BY <1>2, <1>3, ListEqual
<1> QED
  BY <1>4 DEF v

\* Three lists end to end, and the empty one.
LEMMA ListAssociates ==
    ASSUME NEW s, NEW t, NEW u, List(s), List(t), List(u)
    PROVE  (s \o t) \o u = s \o (t \o u) /\ s \o <<>> = s /\ <<>> \o s = s
<1>1. PICK D : s \in Seq(D)
  BY DEF List
<1>2. PICK E : t \in Seq(E)
  BY DEF List
<1>3. PICK F : u \in Seq(F)
  BY DEF List
<1> DEFINE U == D \cup E \cup F
<1>4. D \subseteq U /\ E \subseteq U /\ F \subseteq U
  OBVIOUS
<1> HIDE DEF U
<1>5. s \in Seq(U)
  BY <1>1, <1>4, SeqMonotonic
<1>6. t \in Seq(U)
  BY <1>2, <1>4, SeqMonotonic
<1>7. u \in Seq(U)
  BY <1>3, <1>4, SeqMonotonic
<1>8. (s \o t) \o u = s \o (t \o u)
  BY <1>5, <1>6, <1>7, ConcatAssociative
<1>9. s \o <<>> = s /\ <<>> \o s = s
  BY <1>5, ConcatEmptySeq
<1> QED
  BY <1>8, <1>9

Lists(ss) == List(ss) /\ \A i \in 1..Len(ss) : List(ss[i])

\* The first elements of a list.
LEMMA ListPrefix ==
    ASSUME NEW s, List(s), NEW n \in 0..Len(s)
    PROVE  /\ List(SubSeq(s, 1, n)) /\ Len(SubSeq(s, 1, n)) = n
           /\ \A i \in 1..n : SubSeq(s, 1, n)[i] = s[i]
<1>1. PICK D : s \in Seq(D)
  BY DEF List
<1>2. Len(s) \in Nat
  BY ListIs
<1>3. \A i \in 1..n : s[i] \in D
  BY <1>1, <1>2
<1>4. n \in Int /\ 1 \in Int
  BY <1>2
<1>5. /\ SubSeq(s, 1, n) \in Seq(D)
      /\ Len(SubSeq(s, 1, n)) = IF 1 <= n THEN n - 1 + 1 ELSE 0
      /\ \A i \in 1..(n - 1 + 1) : SubSeq(s, 1, n)[i] = s[1 + i - 1]
  BY <1>3, <1>4, SubSeqProperties
<1>6. (IF 1 <= n THEN n - 1 + 1 ELSE 0) = n /\ n - 1 + 1 = n /\ \A i \in 1..n : 1 + i - 1 = i
  BY <1>2
<1> QED
  BY <1>5, <1>6 DEF List

\* A list of one.
LEMMA ListOfOne ==
    ASSUME NEW p
    PROVE  List(<<p>>) /\ Len(<<p>>) = 1 /\ <<p>>[1] = p
<1>1. <<p>> \in Seq({p}) /\ Len(<<p>>) = 1 /\ <<p>>[1] = p
  OBVIOUS
<1> QED
  BY <1>1 DEF List

\* The first elements of a list, one more at a time, until it is whole.
LEMMA ListGrows ==
    ASSUME NEW s, List(s)
    PROVE  /\ SubSeq(s, 1, 0) = <<>> /\ SubSeq(s, 1, Len(s)) = s
           /\ \A d \in 1..Len(s) : SubSeq(s, 1, d) = SubSeq(s, 1, d - 1) \o <<s[d]>>
<1>1. Len(s) \in Nat
  BY ListIs
<1>2. SubSeq(s, 1, 0) = <<>>
  <2>1. 0 \in 0..Len(s)
    BY <1>1
  <2>2. List(SubSeq(s, 1, 0)) /\ Len(SubSeq(s, 1, 0)) = 0
    BY <2>1, ListPrefix
  <2> QED
    BY <2>2, ListIs
<1>3. SubSeq(s, 1, Len(s)) = s
  <2> DEFINE v == SubSeq(s, 1, Len(s))
  <2>1. Len(s) \in 0..Len(s)
    BY <1>1
  <2>2. List(v) /\ Len(v) = Len(s) /\ \A i \in 1..Len(s) : v[i] = s[i]
    BY <2>1, ListPrefix
  <2> HIDE DEF v
  <2>3. v = s
    BY <2>2, ListEqual
  <2> QED
    BY <2>3 DEF v
<1>4. ASSUME NEW d \in 1..Len(s)
      PROVE  SubSeq(s, 1, d) = SubSeq(s, 1, d - 1) \o <<s[d]>>
  <2> DEFINE u == SubSeq(s, 1, d - 1)
             v == SubSeq(s, 1, d)
             w == <<s[d]>>
  <2>1. d - 1 \in 0..Len(s) /\ d \in 0..Len(s)
    BY <1>1
  <2>2. List(u) /\ Len(u) = d - 1 /\ \A i \in 1..(d - 1) : u[i] = s[i]
    BY <2>1, ListPrefix
  <2>3. List(v) /\ Len(v) = d /\ \A i \in 1..d : v[i] = s[i]
    BY <2>1, ListPrefix
  <2>4. List(w) /\ Len(w) = 1 /\ w[1] = s[d]
    BY ListOfOne
  <2> HIDE DEF u, v, w
  <2>5. Len(v) = Len(u) + Len(w)
    BY <1>1, <2>2, <2>3, <2>4
  <2>6. \A i \in 1..Len(u) : v[i] = u[i]
    <3>1. \A i \in 1..(d - 1) : i \in 1..d
      BY <1>1
    <3> QED
      BY <2>2, <2>3, <3>1
  <2>7. \A i \in 1..Len(w) : v[Len(u) + i] = w[i]
    <3>1. \A i \in 1..1 : i = 1
      OBVIOUS
    <3>2. (d - 1) + 1 = d /\ d \in 1..d
      BY <1>1
    <3> QED
      BY <2>2, <2>3, <2>4, <3>1, <3>2
  <2>8. v = u \o w
    BY <2>2, <2>3, <2>4, <2>5, <2>6, <2>7, ListSplits
  <2> QED
    BY <2>8 DEF u, v, w
<1> QED
  BY <1>2, <1>3, <1>4

\* h joins the first n of the lists.
Joins(h, ss, n) == h = [d \in 0..n |-> IF d = 0 THEN <<>> ELSE h[d - 1] \o ss[d]]

\* There are such joins, and they are lists.
LEMMA JoinsExist ==
    ASSUME NEW ss, Lists(ss)
    PROVE  \E h : Joins(h, ss, Len(ss)) /\ \A d \in 0..Len(ss) : List(h[d])
<1>0. Len(ss) \in Nat
  BY ListIs DEF Lists
<1> DEFINE n == Len(ss)
           B == {m \in 0..n : \E h : Joins(h, ss, m)}
<1>1. 0 \in B
  <2>1. Joins([d \in 0..0 |-> <<>>], ss, 0)
    BY DEF Joins
  <2> QED
    BY <2>1
<1>2. ASSUME NEW m \in 1..n, m - 1 \in B
      PROVE  m \in B
  <2>1. PICK h : Joins(h, ss, m - 1)
    BY <1>2
  <2> DEFINE g == [d \in 0..m |-> IF d = m THEN h[m - 1] \o ss[m] ELSE h[d]]
  <2>2. ASSUME NEW d \in 0..m
        PROVE  g[d] = IF d = 0 THEN <<>> ELSE g[d - 1] \o ss[d]
    <3>1. CASE d = m
      <4>1. d - 1 \in 0..m /\ d - 1 # m /\ d # 0
        BY <3>1
      <4> QED
        BY <3>1, <4>1
    <3>2. CASE d # m
      <4>1. d \in 0..(m - 1) /\ (d # 0 => d - 1 \in 0..m /\ d - 1 # m)
        BY <3>2
      <4>2. h[d] = IF d = 0 THEN <<>> ELSE h[d - 1] \o ss[d]
        BY <2>1, <4>1 DEF Joins
      <4>3. g[d] = h[d] /\ (d # 0 => g[d - 1] = h[d - 1])
        BY <3>2, <4>1
      <4> HIDE DEF g
      <4> QED
        BY <4>2, <4>3
    <3> QED
      BY <3>1, <3>2
  <2>3. g = [d \in 0..m |-> g[d]]
    OBVIOUS
  <2> HIDE DEF g
  <2>4. Joins(g, ss, m)
    BY <2>2, <2>3 DEF Joins
  <2> QED
    BY <2>4
<1>3. n \in B
  <2>1. n \in Nat
    BY <1>0
  <2>2. \A m \in 1..n : m - 1 \in B => m \in B
    BY <1>2
  <2> HIDE DEF B, n
  <2>3. \A m \in 0..n : m \in B
    BY <1>1, <2>1, <2>2, Climb
  <2> QED
    BY <2>1, <2>3
<1>4. PICK h : Joins(h, ss, n)
  BY <1>3
<1> HIDE DEF n, B
<1> DEFINE C == {d \in 0..n : List(h[d])}
<1>5. n \in Nat
  BY <1>0 DEF n
<1>6. 0 \in C
  <2>1. h[0] = <<>>
    BY <1>4, <1>5 DEF Joins
  <2>2. <<>> \in Seq({})
    OBVIOUS
  <2>3. List(h[0])
    BY <2>1, <2>2 DEF List
  <2> QED
    BY <1>5, <2>3
<1>7. ASSUME NEW d \in 1..n, d - 1 \in C
      PROVE  d \in C
  <2>1. d \in 0..n /\ d # 0
    BY <1>5
  <2>2. h[d] = h[d - 1] \o ss[d]
    BY <1>4, <2>1 DEF Joins
  <2>3. List(ss[d])
    BY DEF Lists, n
  <2>4. List(h[d])
    BY <1>7, <2>2, <2>3, ListConcat
  <2> QED
    BY <2>1, <2>4
<1> HIDE DEF C
<1>8. \A d \in 0..n : d \in C
  BY <1>5, <1>6, <1>7, Climb
<1> QED
  BY <1>4, <1>8 DEF C, n

\* h is what the library's flattening computes on the way.
Flattens(h, ss) ==
    h = [i \in 1..Len(ss) |-> IF i = 1 THEN ss[i] ELSE h[i - 1] \o ss[i]]

\* What the library flattens a list of lists to is its last join.
LEMMA FlattenIs ==
    ASSUME NEW ss, Lists(ss), NEW h, Joins(h, ss, Len(ss)), \A d \in 0..Len(ss) : List(h[d])
    PROVE  FlattenSeq(ss) = h[Len(ss)]
<1> DEFINE n == Len(ss)
           run == CHOOSE f : Flattens(f, ss)
           g == [i \in 1..n |-> h[i]]
<1>1. n \in Nat
  BY ListIs DEF Lists
<1>2. h[0] = <<>> /\ \A i \in 1..n : h[i] = h[i - 1] \o ss[i]
  <2>1. \A i \in 1..n : i \in 0..n /\ i # 0
    BY <1>1
  <2>2. 0 \in 0..n
    BY <1>1
  <2> QED
    BY <2>1, <2>2 DEF Joins
<1>3. CASE n = 0
  <2>1. ss = <<>>
    BY <1>3, ListIs DEF Lists
  <2> QED
    BY <1>2, <1>3, <2>1 DEF FlattenSeq
<1>4. CASE n # 0
  <2>1. h[1] = ss[1]
    <3>1. 1 \in 1..n /\ 1 - 1 = 0
      BY <1>1, <1>4
    <3>2. h[1] = <<>> \o ss[1] /\ List(ss[1])
      BY <1>2, <3>1 DEF Lists
    <3> QED
      BY <3>2, ListAssociates
  <2>2. ASSUME NEW i \in 1..n
        PROVE  g[i] = IF i = 1 THEN ss[i] ELSE g[i - 1] \o ss[i]
    <3>1. CASE i = 1
      BY <2>1, <3>1
    <3>2. CASE i # 1
      <4>1. i - 1 \in 1..n
        BY <1>1, <3>2
      <4> QED
        BY <1>2, <3>2, <4>1
    <3> QED
      BY <3>1, <3>2
  <2>3. Flattens(g, ss)
    <3>1. g = [i \in 1..n |-> g[i]]
      OBVIOUS
    <3> HIDE DEF g
    <3> QED
      BY <2>2, <3>1 DEF Flattens
  <2>4. Flattens(run, ss)
    BY <2>3, Zenon
  <2>5. FlattenSeq(ss) = run[n]
    <3>1. ~(Len(ss) = 0)
      BY <1>4
    <3> QED
      BY <3>1, Zenon DEF FlattenSeq, Flattens
  <2> HIDE DEF run, g
  <2> DEFINE top == n - 1
             B == {d \in 0..top : run[d + 1] = h[d + 1]}
  <2>6. top \in Nat
    BY <1>1, <1>4
  <2>7. 0 \in B
    <3>1. 1 \in 1..n
      BY <1>1, <1>4
    <3>2. run[1] = ss[1]
      BY <2>4, <3>1 DEF Flattens
    <3>3. run[0 + 1] = h[0 + 1]
      BY <2>1, <3>2
    <3> QED
      BY <2>6, <3>3
  <2>8. ASSUME NEW d \in 1..top, d - 1 \in B
        PROVE  d \in B
    <3>1. d + 1 \in 1..n /\ d + 1 # 1 /\ (d + 1) - 1 = d /\ (d - 1) + 1 = d /\ d \in 0..top
      BY <1>1
    <3>2. run[d + 1] = run[d] \o ss[d + 1]
      BY <2>4, <3>1 DEF Flattens
    <3>3. h[d + 1] = h[d] \o ss[d + 1]
      BY <1>2, <3>1
    <3>4. run[d] = h[d]
      BY <2>8, <3>1
    <3> QED
      BY <3>1, <3>2, <3>3, <3>4
  <2> HIDE DEF B
  <2>9. \A d \in 0..top : d \in B
    <3> HIDE DEF top
    <3> QED
      BY <2>6, <2>7, <2>8, Climb
  <2>10. top \in B /\ top + 1 = n
    BY <1>1, <2>6, <2>9
  <2>11. run[n] = h[n]
    BY <2>10 DEF B
  <2> QED
    BY <2>5, <2>11
<1> QED
  BY <1>3, <1>4

\* Flattening goes through concatenation.
LEMMA FlattenConcat ==
    ASSUME NEW xs, NEW ys, Lists(xs), Lists(ys)
    PROVE  /\ FlattenSeq(xs \o ys) = FlattenSeq(xs) \o FlattenSeq(ys)
           /\ List(FlattenSeq(xs))
<1> DEFINE zs == xs \o ys
           n == Len(xs)
           m == Len(ys)
<1>1. n \in Nat /\ m \in Nat
  BY ListIs DEF Lists
<1>2. /\ List(zs) /\ Len(zs) = n + m
      /\ \A i \in 1..n : zs[i] = xs[i]
      /\ \A i \in 1..m : zs[n + i] = ys[i]
  BY ListConcat DEF Lists
<1>3. Lists(zs)
  <2> SUFFICES ASSUME NEW i \in 1..(n + m)
               PROVE  List(zs[i])
    BY <1>2 DEF Lists
  <2>1. CASE i <= n
    <3>1. i \in 1..n
      BY <1>1, <2>1
    <3> QED
      BY <1>2, <3>1 DEF Lists
  <2>2. CASE i > n
    <3>1. i - n \in 1..m /\ n + (i - n) = i
      BY <1>1, <2>2
    <3>2. zs[n + (i - n)] = ys[i - n]
      BY <1>2, <3>1
    <3> QED
      BY <3>1, <3>2 DEF Lists
  <2> QED
    BY <1>1, <2>1, <2>2
<1> HIDE DEF zs
<1>4. PICK f : Joins(f, xs, n) /\ \A d \in 0..n : List(f[d])
  BY JoinsExist
<1>5. PICK g : Joins(g, ys, m) /\ \A d \in 0..m : List(g[d])
  BY JoinsExist
<1>6. PICK h : Joins(h, zs, n + m) /\ \A d \in 0..(n + m) : List(h[d])
  BY <1>2, <1>3, JoinsExist
<1>7. FlattenSeq(xs) = f[n] /\ FlattenSeq(ys) = g[m] /\ FlattenSeq(zs) = h[n + m]
  BY <1>2, <1>3, <1>4, <1>5, <1>6, FlattenIs
<1> HIDE DEF n, m
<1> DEFINE B == {d \in 0..n : h[d] = f[d]}
<1>8. 0 \in B
  <2>1. 0 \in 0..n /\ 0 \in 0..(n + m)
    BY <1>1
  <2> QED
    BY <1>4, <1>6, <2>1 DEF Joins
<1>9. ASSUME NEW d \in 1..n, d - 1 \in B
      PROVE  d \in B
  <2>1. d \in 0..n /\ d \in 0..(n + m) /\ d # 0
    BY <1>1
  <2>2. f[d] = f[d - 1] \o xs[d]
    BY <1>4, <2>1 DEF Joins
  <2>3. h[d] = h[d - 1] \o zs[d]
    BY <1>6, <2>1 DEF Joins
  <2> QED
    BY <1>2, <1>9, <2>1, <2>2, <2>3
<1> HIDE DEF B
<1>10. \A d \in 0..n : d \in B
  BY <1>1, <1>8, <1>9, Climb
<1>11. h[n] = f[n]
  BY <1>1, <1>10 DEF B
<1> DEFINE C == {d \in 0..m : h[n + d] = f[n] \o g[d]}
<1>12. 0 \in C
  <2>1. 0 \in 0..m /\ n + 0 = n /\ n \in 0..n
    BY <1>1
  <2>2. g[0] = <<>>
    BY <1>5, <2>1 DEF Joins
  <2>3. List(f[n])
    BY <1>4, <2>1
  <2>4. f[n] \o <<>> = f[n]
    BY <2>3, ListAssociates
  <2> QED
    BY <1>11, <2>1, <2>2, <2>4
<1>13. ASSUME NEW d \in 1..m, d - 1 \in C
       PROVE  d \in C
  <2>1. /\ d \in 0..m /\ d # 0 /\ n + d \in 0..(n + m) /\ n + d # 0
        /\ (n + d) - 1 = n + (d - 1) /\ d - 1 \in 0..m /\ n \in 0..n
    BY <1>1
  <2>2. g[d] = g[d - 1] \o ys[d]
    BY <1>5, <2>1 DEF Joins
  <2>3. h[n + d] = h[(n + d) - 1] \o zs[n + d]
    BY <1>6, <2>1 DEF Joins
  <2>4. h[n + (d - 1)] = f[n] \o g[d - 1]
    BY <1>13
  <2>5. zs[n + d] = ys[d]
    BY <1>2
  <2>6. List(f[n]) /\ List(g[d - 1]) /\ List(ys[d])
    BY <1>4, <1>5, <2>1 DEF Lists, m
  <2>7. (f[n] \o g[d - 1]) \o ys[d] = f[n] \o (g[d - 1] \o ys[d])
    <3> DEFINE x == f[n]
               y == g[d - 1]
               z == ys[d]
    <3>1. List(x) /\ List(y) /\ List(z)
      BY <2>6
    <3> HIDE DEF x, y, z
    <3>2. (x \o y) \o z = x \o (y \o z)
      BY <3>1, ListAssociates
    <3> QED
      BY <3>2 DEF x, y, z
  <2> QED
    BY <2>1, <2>2, <2>3, <2>4, <2>5, <2>7
<1> HIDE DEF C
<1>14. \A d \in 0..m : d \in C
  BY <1>1, <1>12, <1>13, Climb
<1>15. h[n + m] = f[n] \o g[m]
  <2>1. m \in C
    BY <1>1, <1>14
  <2> QED
    BY <2>1 DEF C
<1>16. List(f[n])
  BY <1>1, <1>4
<1> QED
  BY <1>7, <1>15, <1>16 DEF zs

\* Flattening one list, or none.
LEMMA FlattenOne ==
    ASSUME NEW s, List(s)
    PROVE  FlattenSeq(<<s>>) = s /\ FlattenSeq(<<>>) = <<>>
<1>1. Lists(<<s>>) /\ Len(<<s>>) = 1
  <2>1. <<s>> \in Seq({s}) /\ Len(<<s>>) = 1 /\ <<s>>[1] = s
    OBVIOUS
  <2>2. \A i \in 1..1 : i = 1
    OBVIOUS
  <2> QED
    BY <2>1, <2>2 DEF Lists, List
<1>2. PICK h : Joins(h, <<s>>, 1) /\ \A d \in 0..1 : List(h[d])
  BY <1>1, JoinsExist
<1>3. FlattenSeq(<<s>>) = h[1]
  BY <1>1, <1>2, FlattenIs
<1>4. h[0] = <<>>
  BY <1>2 DEF Joins
<1>5. h[1] = h[1 - 1] \o <<s>>[1]
  BY <1>2 DEF Joins
<1>6. h[1] = <<>> \o s
  <2>1. 1 - 1 = 0 /\ <<s>>[1] = s
    OBVIOUS
  <2> QED
    BY <1>4, <1>5, <2>1
<1>7. <<>> \o s = s
  BY ListAssociates
<1>8. FlattenSeq(<<>>) = <<>>
  BY DEF FlattenSeq
<1> QED
  BY <1>3, <1>6, <1>7, <1>8

----------------------------------------------------------------------------
(* Carrying out an encoder's calls. *)

\* h is the writing of parts up to level n.
WritingLevels(h, types, parts, n) ==
    h = [d \in 0..n |-> IF d = 0 THEN parts ELSE WriteAll(types, h[d - 1])]

\* Writing is what its definition says.
LEMMA WritingLevelsAre ==
    ASSUME NEW types, NEW parts
    PROVE  WritingLevels(Writing(types, parts), types, parts, Calls)
<1>0. Calls \in Nat
  BY CodecAssumption
<1> DEFINE n == Calls
           B == {m \in 0..n : \E h : WritingLevels(h, types, parts, m)}
<1>1. 0 \in B
  <2>1. WritingLevels([d \in 0..0 |-> parts], types, parts, 0)
    BY DEF WritingLevels
  <2> QED
    BY <1>0, <2>1
<1>2. ASSUME NEW m \in 1..n, m - 1 \in B
      PROVE  m \in B
  <2>1. PICK h : WritingLevels(h, types, parts, m - 1)
    BY <1>2
  <2> DEFINE g == [d \in 0..m |-> IF d = m THEN WriteAll(types, h[m - 1]) ELSE h[d]]
  <2>2. ASSUME NEW d \in 0..m
        PROVE  g[d] = IF d = 0 THEN parts ELSE WriteAll(types, g[d - 1])
    <3>1. CASE d = m
      <4>1. d - 1 \in 0..m /\ d - 1 # m /\ d # 0
        BY <3>1
      <4> QED
        BY <3>1, <4>1
    <3>2. CASE d # m
      <4>1. d \in 0..(m - 1) /\ (d # 0 => d - 1 \in 0..m /\ d - 1 # m)
        BY <3>2
      <4>2. h[d] = IF d = 0 THEN parts ELSE WriteAll(types, h[d - 1])
        BY <2>1, <4>1 DEF WritingLevels
      <4>3. g[d] = h[d] /\ (d # 0 => g[d - 1] = h[d - 1])
        BY <3>2, <4>1
      <4> HIDE DEF g
      <4> QED
        BY <4>2, <4>3
    <3> QED
      BY <3>1, <3>2
  <2>3. g = [d \in 0..m |-> g[d]]
    OBVIOUS
  <2> HIDE DEF g
  <2>4. WritingLevels(g, types, parts, m)
    BY <2>2, <2>3 DEF WritingLevels
  <2> QED
    BY <2>4
<1>3. n \in B
  <2>1. n \in Nat
    BY <1>0
  <2>2. \A m \in 1..n : m - 1 \in B => m \in B
    BY <1>2
  <2> HIDE DEF B, n
  <2>3. \A m \in 0..n : m \in B
    BY <1>1, <2>1, <2>2, Climb
  <2> QED
    BY <2>1, <2>3
<1>4. PICK h : WritingLevels(h, types, parts, n)
  BY <1>3
<1> QED
  BY <1>4, Zenon DEF Writing, WritingLevels

\* The levels, one by one.
LEMMA WritingIs ==
    ASSUME NEW types, NEW parts
    PROVE  /\ Writing(types, parts)[0] = parts
           /\ \A d \in 1..Calls :
                 Writing(types, parts)[d] = WriteAll(types, Writing(types, parts)[d - 1])
<1>0. Calls \in Nat
  BY CodecAssumption
<1> DEFINE w == Writing(types, parts)
<1>1. WritingLevels(w, types, parts, Calls)
  BY WritingLevelsAre
<1> HIDE DEF w
<1>2. w[0] = parts
  BY <1>0, <1>1 DEF WritingLevels
<1>3. ASSUME NEW d \in 1..Calls
      PROVE  w[d] = WriteAll(types, w[d - 1])
  <2>1. d \in 0..Calls /\ d # 0
    BY <1>0
  <2> QED
    BY <1>1, <2>1 DEF WritingLevels
<1> QED
  BY <1>2, <1>3 DEF w

\* Each part of x writes a list.
Willing(types, x) == List(x) /\ \A i \in 1..Len(x) : List(Writes(types, x[i]))

\* Writing goes through concatenation.
LEMMA WriteAllConcat ==
    ASSUME NEW types, NEW x, NEW y, Willing(types, x), Willing(types, y)
    PROVE  /\ WriteAll(types, x \o y) = WriteAll(types, x) \o WriteAll(types, y)
           /\ List(WriteAll(types, x)) /\ Willing(types, x \o y)
<1> DEFINE n == Len(x)
           m == Len(y)
           z == x \o y
           xs == [i \in 1..n |-> Writes(types, x[i])]
           ys == [i \in 1..m |-> Writes(types, y[i])]
           zs == [i \in 1..Len(z) |-> Writes(types, z[i])]
<1>1. n \in Nat /\ m \in Nat
  BY ListIs DEF Willing
<1>2. /\ List(z) /\ Len(z) = n + m
      /\ \A i \in 1..n : z[i] = x[i]
      /\ \A i \in 1..m : z[n + i] = y[i]
  BY ListConcat DEF Willing
<1> HIDE DEF z
<1>3. Lists(xs) /\ Len(xs) = n
  <2>1. List(xs) /\ Len(xs) = n
    <3>1. xs = [i \in 1..n |-> xs[i]]
      OBVIOUS
    <3> HIDE DEF xs, n
    <3> QED
      BY <1>1, <3>1, ListOf
  <2>2. \A i \in 1..n : List(xs[i])
    BY DEF Willing
  <2> HIDE DEF xs
  <2> QED
    BY <2>1, <2>2 DEF Lists
<1>4. Lists(ys) /\ Len(ys) = m
  <2>1. List(ys) /\ Len(ys) = m
    <3>1. ys = [i \in 1..m |-> ys[i]]
      OBVIOUS
    <3> HIDE DEF ys, m
    <3> QED
      BY <1>1, <3>1, ListOf
  <2>2. \A i \in 1..m : List(ys[i])
    BY DEF Willing
  <2> HIDE DEF ys
  <2> QED
    BY <2>1, <2>2 DEF Lists
<1>6. List(zs) /\ Len(zs) = n + m
  <2>1. zs = [i \in 1..(n + m) |-> zs[i]] /\ n + m \in Nat
    BY <1>1, <1>2
  <2> HIDE DEF zs, n, m
  <2> QED
    BY <2>1, ListOf
<1>7. ASSUME NEW i \in 1..n
      PROVE  zs[i] = xs[i] /\ List(zs[i])
  <2>1. i \in 1..(n + m)
    BY <1>1
  <2>2. zs[i] = Writes(types, z[i]) /\ z[i] = x[i]
    BY <1>2, <2>1
  <2> QED
    BY <2>2 DEF Willing
<1>8. ASSUME NEW i \in 1..m
      PROVE  zs[n + i] = ys[i] /\ List(zs[n + i])
  <2>1. n + i \in 1..(n + m)
    BY <1>1
  <2>2. zs[n + i] = Writes(types, z[n + i]) /\ z[n + i] = y[i]
    BY <1>2, <2>1
  <2> QED
    BY <2>2 DEF Willing
<1>12. zs = xs \o ys
  <2> HIDE DEF zs, xs, ys, n, m
  <2>1. List(xs) /\ List(ys) /\ Len(zs) = Len(xs) + Len(ys)
    BY <1>3, <1>4, <1>6 DEF Lists
  <2>2. (\A i \in 1..Len(xs) : zs[i] = xs[i]) /\ (\A i \in 1..Len(ys) : zs[Len(xs) + i] = ys[i])
    BY <1>3, <1>4, <1>7, <1>8
  <2> QED
    BY <1>6, <2>1, <2>2, ListSplits
<1>9. FlattenSeq(xs \o ys) = FlattenSeq(xs) \o FlattenSeq(ys) /\ List(FlattenSeq(xs))
  <2> HIDE DEF zs, xs, ys, n, m
  <2> QED
    BY <1>3, <1>4, FlattenConcat
<1>10. Willing(types, z)
  <2>1. ASSUME NEW i \in 1..Len(z)
        PROVE  List(Writes(types, z[i]))
    <3>1. CASE i <= n
      <4>1. i \in 1..n
        BY <1>1, <3>1
      <4> QED
        BY <1>2, <4>1 DEF Willing
    <3>2. CASE i > n
      <4> DEFINE j == i - n
      <4>1. j \in 1..m /\ n + j = i
        BY <1>1, <1>2, <3>2
      <4> HIDE DEF j
      <4>2. z[n + j] = y[j]
        BY <1>2, <4>1
      <4>3. List(Writes(types, y[j]))
        BY <4>1 DEF Willing
      <4> QED
        BY <4>1, <4>2, <4>3
    <3> QED
      BY <1>1, <1>2, <3>1, <3>2
  <2> QED
    BY <1>2, <2>1 DEF Willing
<1>11. /\ WriteAll(types, z) = FlattenSeq(zs) /\ WriteAll(types, x) = FlattenSeq(xs)
       /\ WriteAll(types, y) = FlattenSeq(ys)
  BY DEF WriteAll
<1> HIDE DEF zs, xs, ys
<1> QED
  BY <1>9, <1>10, <1>11, <1>12 DEF z

\* Writing one part, or none.
LEMMA WriteAllOne ==
    ASSUME NEW types, NEW p, List(Writes(types, p))
    PROVE  /\ WriteAll(types, <<p>>) = Writes(types, p) /\ Willing(types, <<p>>)
           /\ WriteAll(types, <<>>) = <<>> /\ Willing(types, <<>>)
<1> DEFINE s == Writes(types, p)
<1>1. [i \in 1..Len(<<p>>) |-> Writes(types, <<p>>[i])] = <<s>>
  <2> DEFINE f == [i \in 1..Len(<<p>>) |-> Writes(types, <<p>>[i])]
  <2>1. f = [i \in 1..1 |-> f[i]] /\ f[1] = s
    OBVIOUS
  <2> HIDE DEF f, s
  <2>2. List(f) /\ Len(f) = 1
    BY <2>1, ListOf
  <2>3. List(<<s>>) /\ Len(<<s>>) = 1 /\ <<s>>[1] = s
    BY ListOfOne
  <2>4. \A i \in 1..1 : i = 1
    OBVIOUS
  <2>5. f = <<s>>
    BY <2>1, <2>2, <2>3, <2>4, ListEqual
  <2> QED
    BY <2>5 DEF f, s
<1>2. FlattenSeq(<<s>>) = s /\ FlattenSeq(<<>>) = <<>>
  BY FlattenOne
<1>3. WriteAll(types, <<p>>) = s
  <2>1. WriteAll(types, <<p>>) = FlattenSeq([i \in 1..Len(<<p>>) |-> Writes(types, <<p>>[i])])
    BY DEF WriteAll
  <2> HIDE DEF s
  <2> QED
    BY <1>1, <1>2, <2>1
<1>4. Willing(types, <<p>>)
  <2>1. \A i \in 1..1 : i = 1
    OBVIOUS
  <2> QED
    BY <2>1, ListOfOne DEF Willing
<1>5. Len(<<>>) = 0 /\ List(<<>>)
  <2>1. <<>> \in Seq({})
    OBVIOUS
  <2> QED
    BY <2>1 DEF List
<1>6. Willing(types, <<>>)
  <2>1. \A i \in 1..0 : FALSE
    OBVIOUS
  <2> QED
    BY <1>5, <2>1 DEF Willing
<1>7. WriteAll(types, <<>>) = <<>>
  <2>1. [i \in 1..Len(<<>>) |-> Writes(types, <<>>[i])] = <<>>
    <3> DEFINE f == [i \in 1..0 |-> Writes(types, <<>>[i])]
    <3>1. f = [i \in 1..0 |-> f[i]]
      OBVIOUS
    <3> HIDE DEF f
    <3>2. List(f) /\ Len(f) = 0
      BY <3>1, ListOf
    <3>3. f = <<>>
      BY <3>2, ListIs
    <3> QED
      BY <1>5, <3>3 DEF f
  <2>2. WriteAll(types, <<>>) = FlattenSeq([i \in 1..Len(<<>>) |-> Writes(types, <<>>[i])])
    BY DEF WriteAll
  <2> QED
    BY <1>2, <2>1, <2>2
<1> QED
  BY <1>3, <1>4, <1>6, <1>7

\* Bytes as parts.
LEMMA BytesAre ==
    ASSUME NEW s \in Seq(Byte)
    PROVE  /\ List(Bytes(s)) /\ Len(Bytes(s)) = Len(s)
           /\ \A i \in 1..Len(s) : Bytes(s)[i] = Part("byte", s[i], 0)
<1>1. Len(s) \in Nat /\ DOMAIN s = 1..Len(s)
  OBVIOUS
<1> DEFINE f == Bytes(s)
<1>2. f = [i \in 1..Len(s) |-> f[i]] /\ \A i \in 1..Len(s) : f[i] = Part("byte", s[i], 0)
  BY <1>1 DEF Bytes
<1> HIDE DEF f
<1>3. List(f) /\ Len(f) = Len(s)
  BY <1>1, <1>2, ListOf
<1> QED
  BY <1>2, <1>3 DEF f

\* Byte strings end to end.
LEMMA BytesConcat ==
    ASSUME NEW s \in Seq(Byte), NEW t \in Seq(Byte)
    PROVE  s \o t \in Seq(Byte) /\ Bytes(s \o t) = Bytes(s) \o Bytes(t)
<1> DEFINE n == Len(s)
           m == Len(t)
           u == s \o t
           x == Bytes(s)
           y == Bytes(t)
           z == Bytes(u)
<1>1. n \in Nat /\ m \in Nat /\ List(s) /\ List(t)
  BY DEF List
<1>2. u \in Seq(Byte)
  BY ConcatProperties
<1>3. Len(u) = n + m /\ (\A i \in 1..n : u[i] = s[i]) /\ (\A i \in 1..m : u[n + i] = t[i])
  BY <1>1, ListConcat
<1> HIDE DEF u
<1>4. List(x) /\ Len(x) = n /\ \A i \in 1..n : x[i] = Part("byte", s[i], 0)
  BY BytesAre
<1>5. List(y) /\ Len(y) = m /\ \A i \in 1..m : y[i] = Part("byte", t[i], 0)
  BY BytesAre
<1>6. List(z) /\ Len(z) = n + m /\ \A i \in 1..(n + m) : z[i] = Part("byte", u[i], 0)
  BY <1>2, <1>3, BytesAre
<1> HIDE DEF x, y, z
<1>7. \A i \in 1..n : z[i] = x[i]
  <2> SUFFICES ASSUME NEW i \in 1..n
               PROVE  z[i] = x[i]
    OBVIOUS
  <2>1. i \in 1..(n + m)
    BY <1>1
  <2> QED
    BY <1>3, <1>4, <1>6, <2>1
<1>8. \A i \in 1..m : z[n + i] = y[i]
  <2> SUFFICES ASSUME NEW i \in 1..m
               PROVE  z[n + i] = y[i]
    OBVIOUS
  <2>1. n + i \in 1..(n + m)
    BY <1>1
  <2> QED
    BY <1>3, <1>5, <1>6, <2>1
<1>9. Len(z) = Len(x) + Len(y)
  BY <1>4, <1>5, <1>6
<1>10. (\A i \in 1..Len(x) : z[i] = x[i]) /\ (\A i \in 1..Len(y) : z[Len(x) + i] = y[i])
  BY <1>4, <1>5, <1>7, <1>8
<1>11. z = x \o y
  BY <1>4, <1>5, <1>6, <1>9, <1>10, ListSplits
<1> QED
  BY <1>2, <1>11 DEF x, y, z, u

\* Byte strings that are the same part by part are the same.
LEMMA BytesInjective ==
    ASSUME NEW s \in Seq(Byte), NEW t \in Seq(Byte), Bytes(s) = Bytes(t)
    PROVE  s = t
<1> DEFINE x == Bytes(s)
<1>1. Len(x) = Len(s) /\ \A i \in 1..Len(s) : x[i] = Part("byte", s[i], 0)
  BY BytesAre
<1>2. Len(x) = Len(t) /\ \A i \in 1..Len(t) : x[i] = Part("byte", t[i], 0)
  BY BytesAre
<1> HIDE DEF x
<1>3. \A i \in 1..Len(s) : Part("byte", s[i], 0) = Part("byte", t[i], 0)
  BY <1>1, <1>2
<1>4. \A i \in 1..Len(s) : s[i] = t[i]
  BY <1>3 DEF Part
<1> QED
  BY <1>1, <1>2, <1>4, SeqEqual

\* Bytes are written as they are.
LEMMA BytesStay ==
    ASSUME NEW types, NEW s \in Seq(Byte)
    PROVE  WriteAll(types, Bytes(s)) = Bytes(s) /\ Willing(types, Bytes(s))
<1> DEFINE t == Bytes(s)
           n == Len(s)
           C == {d \in 0..n : WriteAll(types, SubSeq(t, 1, d)) = SubSeq(t, 1, d)
                              /\ Willing(types, SubSeq(t, 1, d))}
<1>1. n \in Nat /\ List(t) /\ Len(t) = n /\ \A i \in 1..n : t[i] = Part("byte", s[i], 0)
  BY BytesAre
<1> HIDE DEF t
<1>2. ASSUME NEW i \in 1..n
      PROVE  Writes(types, t[i]) = <<t[i]>> /\ List(Writes(types, t[i]))
  <2>1. t[i].name = "byte"
    <3>1. t[i] = Part("byte", s[i], 0)
      BY <1>1
    <3> QED
      BY <3>1 DEF Part
  <2>2. Writes(types, t[i]) = <<t[i]>>
    BY <2>1 DEF Writes
  <2> QED
    BY <2>2, ListOfOne
<1> HIDE DEF n
<1>3. 0 \in C
  <2>1. SubSeq(t, 1, 0) = <<>>
    BY <1>1, ListGrows
  <2>2. WriteAll(types, <<>>) = <<>> /\ Willing(types, <<>>)
    <3> DEFINE p == Part("byte", 0, 0)
    <3>1. Writes(types, p) = <<p>>
      BY DEF Writes, Part
    <3> HIDE DEF p
    <3>2. List(Writes(types, p))
      BY <3>1, ListOfOne
    <3> QED
      BY <3>2, WriteAllOne
  <2>3. 0 \in 0..n
    BY <1>1
  <2> QED
    BY <2>1, <2>2, <2>3
<1>4. ASSUME NEW d \in 1..n, d - 1 \in C
      PROVE  d \in C
  <2> DEFINE u == SubSeq(t, 1, d - 1)
             p == t[d]
             o == <<p>>
  <2>1. SubSeq(t, 1, d) = u \o o /\ d \in 0..n
    BY <1>1, ListGrows
  <2>2. WriteAll(types, u) = u /\ Willing(types, u)
    BY <1>4
  <2>3. Writes(types, p) = o /\ List(Writes(types, p))
    BY <1>2
  <2> HIDE DEF u, p
  <2>4. WriteAll(types, o) = o /\ Willing(types, o)
    BY <2>3, WriteAllOne
  <2> HIDE DEF o
  <2>5. WriteAll(types, u \o o) = WriteAll(types, u) \o WriteAll(types, o) /\ Willing(types, u \o o)
    BY <2>2, <2>4, WriteAllConcat
  <2> QED
    BY <2>1, <2>2, <2>4, <2>5
<1> HIDE DEF C
<1>5. \A d \in 0..n : d \in C
  BY <1>1, <1>3, <1>4, Climb
<1>6. WriteAll(types, SubSeq(t, 1, n)) = SubSeq(t, 1, n) /\ Willing(types, SubSeq(t, 1, n))
  <2>1. n \in C
    BY <1>1, <1>5
  <2> QED
    BY <2>1 DEF C
<1>7. SubSeq(t, 1, n) = t
  BY <1>1, ListGrows
<1> QED
  BY <1>6, <1>7 DEF t

\* Each of the first k levels of x writes lists.
Writable(types, x, k) ==
    List(x) /\ \A m \in 0..(k - 1) : Willing(types, Writing(types, x)[m])

\* Then each level is a list.
LEMMA WritableLists ==
    ASSUME NEW types, NEW x, NEW k \in 0..Calls, Writable(types, x, k), NEW m \in 0..k
    PROVE  List(Writing(types, x)[m])
<1> DEFINE w == Writing(types, x)
<1>0. Calls \in Nat
  BY CodecAssumption
<1>1. CASE m = 0
  BY <1>1, WritingIs DEF Writable
<1>2. CASE m # 0
  <2>1. m \in 1..Calls /\ m - 1 \in 0..(k - 1)
    BY <1>0, <1>2
  <2>2. w[m] = WriteAll(types, w[m - 1])
    BY <2>1, WritingIs
  <2>3. Willing(types, w[m - 1])
    BY <2>1 DEF Writable
  <2> DEFINE y == w[m - 1]
  <2> HIDE DEF y
  <2>4. List(WriteAll(types, y))
    BY <2>3, WriteAllConcat DEF y
  <2> QED
    BY <2>2, <2>4 DEF y
<1> QED
  BY <1>1, <1>2

EndToEnd(x, y, z) == z = x \o y

\* Writing two lists level by level.
LEMMA WritableConcat ==
    ASSUME NEW types, NEW x, NEW y, NEW z, EndToEnd(x, y, z), NEW k \in 0..Calls,
           Writable(types, x, k), Writable(types, y, k)
    PROVE  /\ Writable(types, z, k)
           /\ EndToEnd(Writing(types, x)[k], Writing(types, y)[k], Writing(types, z)[k])
<1> DEFINE u == Writing(types, x)
           v == Writing(types, y)
           w == Writing(types, z)
           B == {m \in 0..k : w[m] = u[m] \o v[m]}
<1>0. Calls \in Nat /\ k \in Nat /\ k <= Calls
  BY CodecAssumption
<1>1. /\ u[0] = x /\ v[0] = y /\ w[0] = z
      /\ \A d \in 1..Calls : /\ u[d] = WriteAll(types, u[d - 1])
                             /\ v[d] = WriteAll(types, v[d - 1])
                             /\ w[d] = WriteAll(types, w[d - 1])
  <2>1. u[0] = x /\ \A d \in 1..Calls : u[d] = WriteAll(types, u[d - 1])
    BY WritingIs
  <2>2. v[0] = y /\ \A d \in 1..Calls : v[d] = WriteAll(types, v[d - 1])
    BY WritingIs
  <2>3. w[0] = z /\ \A d \in 1..Calls : w[d] = WriteAll(types, w[d - 1])
    BY WritingIs
  <2> QED
    BY <2>1, <2>2, <2>3
<1>2. \A m \in 0..(k - 1) : Willing(types, u[m]) /\ Willing(types, v[m])
  BY DEF Writable
<1> HIDE DEF u, v, w
<1>3. 0 \in B
  <2>1. 0 \in 0..k
    BY <1>0
  <2> QED
    BY <1>1, <2>1 DEF EndToEnd
<1>4. ASSUME NEW m \in 1..k, m - 1 \in B
      PROVE  m \in B
  <2> DEFINE s == u[m - 1]
             t == v[m - 1]
  <2>1. m - 1 \in 0..(k - 1) /\ m \in 1..Calls /\ m \in 0..k
    BY <1>0
  <2>2. Willing(types, s) /\ Willing(types, t)
    BY <1>2, <2>1
  <2>3. w[m - 1] = s \o t
    BY <1>4
  <2>4. u[m] = WriteAll(types, s) /\ v[m] = WriteAll(types, t) /\ w[m] = WriteAll(types, w[m - 1])
    BY <1>1, <2>1
  <2> HIDE DEF s, t
  <2>5. WriteAll(types, s \o t) = WriteAll(types, s) \o WriteAll(types, t)
    BY <2>2, WriteAllConcat
  <2> QED
    BY <2>1, <2>3, <2>4, <2>5
<1> HIDE DEF B
<1>5. \A m \in 0..k : m \in B
  BY <1>0, <1>3, <1>4, Climb
<1>6. \A m \in 0..k : w[m] = u[m] \o v[m]
  BY <1>5 DEF B
<1>7. ASSUME NEW m \in 0..(k - 1)
      PROVE  Willing(types, w[m])
  <2> DEFINE s == u[m]
             t == v[m]
  <2>1. m \in 0..k
    BY <1>0
  <2>2. w[m] = s \o t /\ Willing(types, s) /\ Willing(types, t)
    BY <1>2, <1>6, <2>1
  <2> HIDE DEF s, t
  <2>3. Willing(types, s \o t)
    BY <2>2, WriteAllConcat
  <2> QED
    BY <2>2, <2>3
<1>8. List(z)
  BY ListConcat DEF Writable, EndToEnd
<1>9. k \in 0..k
  BY <1>0
<1> QED
  BY <1>6, <1>7, <1>8, <1>9 DEF u, v, w, Writable, EndToEnd

\* Writing what one call writes is one level less.
LEMMA WritableCall ==
    ASSUME NEW types, NEW p, NEW k \in 0..(Calls - 1), List(Writes(types, p)),
           Writable(types, Writes(types, p), k)
    PROVE  /\ Writable(types, <<p>>, k + 1)
           /\ \A m \in 0..k :
                 Writing(types, <<p>>)[m + 1] = Writing(types, Writes(types, p))[m]
<1> DEFINE s == Writes(types, p)
           x == <<p>>
           u == Writing(types, x)
           v == Writing(types, s)
           B == {m \in 0..k : u[m + 1] = v[m]}
<1>0. Calls \in Nat /\ k \in Nat /\ k + 1 <= Calls
  BY CodecAssumption
<1>1. /\ u[0] = x /\ v[0] = s
      /\ \A d \in 1..Calls : u[d] = WriteAll(types, u[d - 1]) /\ v[d] = WriteAll(types, v[d - 1])
  BY WritingIs
<1>2. WriteAll(types, x) = s /\ Willing(types, x) /\ List(x)
  BY WriteAllOne, ListOfOne
<1>3. \A m \in 0..(k - 1) : Willing(types, v[m])
  BY DEF Writable
<1> HIDE DEF s, x, u, v
<1>4. 0 \in B
  <2>1. 1 \in 1..Calls /\ 1 - 1 = 0 /\ 0 + 1 = 1 /\ 0 \in 0..k
    BY <1>0
  <2>2. u[1] = WriteAll(types, u[1 - 1])
    BY <1>1, <2>1
  <2> QED
    BY <1>1, <1>2, <2>1, <2>2
<1>5. ASSUME NEW m \in 1..k, m - 1 \in B
      PROVE  m \in B
  <2>1. m + 1 \in 1..Calls /\ m \in 1..Calls /\ (m + 1) - 1 = m /\ (m - 1) + 1 = m /\ m \in 0..k
    BY <1>0
  <2>2. u[m + 1] = WriteAll(types, u[m]) /\ v[m] = WriteAll(types, v[m - 1])
    BY <1>1, <2>1
  <2>3. u[m] = v[m - 1]
    BY <1>5, <2>1
  <2> QED
    BY <2>1, <2>2, <2>3
<1> HIDE DEF B
<1>6. \A m \in 0..k : m \in B
  BY <1>0, <1>4, <1>5, Climb
<1>7. \A m \in 0..k : u[m + 1] = v[m]
  BY <1>6 DEF B
<1>8. ASSUME NEW m \in 0..k
      PROVE  Willing(types, u[m])
  <2>1. CASE m = 0
    BY <1>1, <1>2, <2>1
  <2>2. CASE m # 0
    <3>1. m - 1 \in 0..(k - 1) /\ m - 1 \in 0..k /\ (m - 1) + 1 = m
      BY <1>0, <2>2
    <3> QED
      BY <1>3, <1>7, <3>1
  <2> QED
    BY <2>1, <2>2
<1>9. (k + 1) - 1 = k
  BY <1>0
<1> QED
  BY <1>2, <1>7, <1>8, <1>9 DEF s, x, u, v, Writable

\* Once only bytes are left, nothing more is written.
LEMMA WritableMore ==
    ASSUME NEW types, NEW x, NEW k \in 0..Calls, NEW n \in k..Calls, NEW s \in Seq(Byte),
           Writable(types, x, k), Writing(types, x)[k] = Bytes(s)
    PROVE  Writable(types, x, n) /\ Writing(types, x)[n] = Bytes(s)
<1> DEFINE w == Writing(types, x)
           more == n - k
           B == {d \in 0..more : w[k + d] = Bytes(s)}
<1>0. Calls \in Nat /\ k \in Nat /\ n \in Nat /\ k <= n /\ n <= Calls /\ more \in Nat
  BY CodecAssumption
<1>1. \A d \in 1..Calls : w[d] = WriteAll(types, w[d - 1])
  BY WritingIs
<1>2. WriteAll(types, Bytes(s)) = Bytes(s) /\ Willing(types, Bytes(s))
  BY BytesStay
<1>3. \A m \in 0..(k - 1) : Willing(types, w[m])
  BY DEF Writable
<1> HIDE DEF w
<1>4. 0 \in B
  <2>1. k + 0 = k /\ 0 \in 0..more /\ w[k] = Bytes(s)
    BY <1>0 DEF w
  <2> QED
    BY <2>1
<1>5. ASSUME NEW d \in 1..more, d - 1 \in B
      PROVE  d \in B
  <2>1. k + d \in 1..Calls /\ (k + d) - 1 = k + (d - 1) /\ d \in 0..more
    BY <1>0
  <2>2. w[k + d] = WriteAll(types, w[(k + d) - 1])
    BY <1>1, <2>1
  <2>3. w[k + (d - 1)] = Bytes(s)
    BY <1>5
  <2> QED
    BY <1>2, <2>1, <2>2, <2>3
<1>6. \A d \in 0..more : d \in B
  <2> HIDE DEF B, more
  <2> QED
    BY <1>0, <1>4, <1>5, Climb
<1>7. ASSUME NEW m \in k..n
      PROVE  w[m] = Bytes(s)
  <2>1. m - k \in 0..more /\ k + (m - k) = m
    BY <1>0
  <2>2. m - k \in B
    BY <1>6, <2>1
  <2> QED
    BY <2>1, <2>2
<1>8. ASSUME NEW m \in 0..(n - 1)
      PROVE  Willing(types, w[m])
  <2>1. CASE m < k
    <3>1. m \in 0..(k - 1)
      BY <1>0, <2>1
    <3> QED
      BY <1>3, <3>1
  <2>2. CASE m >= k
    <3>1. m \in k..n
      BY <1>0, <2>2
    <3> QED
      BY <1>2, <1>7, <3>1
  <2> QED
    BY <1>0, <2>1, <2>2
<1>9. n \in k..n
  BY <1>0
<1> QED
  BY <1>7, <1>8, <1>9 DEF w, Writable

\* k levels of writing turn the parts x into the bytes s.
Spells(types, x, k, s) ==
    Writable(types, x, k) /\ s \in Seq(Byte) /\ Writing(types, x)[k] = Bytes(s)

\* Bytes spell themselves.
LEMMA SpellsBytes ==
    ASSUME NEW types, NEW s \in Seq(Byte), NEW k \in 0..Calls
    PROVE  Spells(types, Bytes(s), k, s)
<1> DEFINE x == Bytes(s)
<1>0. Calls \in Nat /\ 0 \in 0..Calls /\ k \in 0..Calls
  BY CodecAssumption
<1>1. Writing(types, x)[0] = Bytes(s) /\ List(x)
  BY WritingIs, BytesAre
<1>2. Writable(types, x, 0)
  <2>1. \A m \in 0..(0 - 1) : FALSE
    OBVIOUS
  <2> QED
    BY <1>1, <2>1 DEF Writable
<1> HIDE DEF x
<1>3. Writable(types, x, k) /\ Writing(types, x)[k] = Bytes(s)
  BY <1>0, <1>1, <1>2, WritableMore
<1> QED
  BY <1>3 DEF Spells, x

\* What is spelled is spelled by more levels too.
LEMMA SpellsMore ==
    ASSUME NEW types, NEW x, NEW k \in 0..Calls, NEW n \in k..Calls, NEW s,
           Spells(types, x, k, s)
    PROVE  Spells(types, x, n, s)
BY WritableMore DEF Spells

\* Two lists end to end.
LEMMA SpellsConcat ==
    ASSUME NEW types, NEW x, NEW y, NEW k \in 0..Calls, NEW s, NEW t,
           Spells(types, x, k, s), Spells(types, y, k, t)
    PROVE  Spells(types, x \o y, k, s \o t)
<1> DEFINE z == x \o y
<1>0. k \in 0..k
  BY CodecAssumption
<1>1. /\ Writable(types, x, k) /\ Writable(types, y, k)
      /\ s \in Seq(Byte) /\ t \in Seq(Byte)
      /\ Writing(types, x)[k] = Bytes(s) /\ Writing(types, y)[k] = Bytes(t)
  BY DEF Spells
<1>2. EndToEnd(x, y, z)
  BY DEF EndToEnd
<1>3. s \o t \in Seq(Byte) /\ Bytes(s \o t) = Bytes(s) \o Bytes(t)
  BY <1>1, BytesConcat
<1> HIDE DEF z
<1>4. /\ Writable(types, z, k)
      /\ EndToEnd(Writing(types, x)[k], Writing(types, y)[k], Writing(types, z)[k])
  BY <1>1, <1>2, WritableConcat
<1>6. Spells(types, z, k, s \o t)
  BY <1>1, <1>3, <1>4 DEF Spells, EndToEnd
<1> QED
  BY <1>2, <1>6 DEF EndToEnd

\* One call more.
LEMMA SpellsCall ==
    ASSUME NEW types, NEW p, NEW k \in 0..(Calls - 1), NEW s,
           Spells(types, Writes(types, p), k, s)
    PROVE  Spells(types, <<p>>, k + 1, s)
<1>0. k \in 0..k
  BY CodecAssumption
<1>1. /\ Writable(types, Writes(types, p), k) /\ List(Writes(types, p))
      /\ s \in Seq(Byte) /\ Writing(types, Writes(types, p))[k] = Bytes(s)
  BY DEF Spells, Writable
<1>2. /\ Writable(types, <<p>>, k + 1)
      /\ Writing(types, <<p>>)[k + 1] = Writing(types, Writes(types, p))[k]
  BY <1>0, <1>1, WritableCall
<1> QED
  BY <1>1, <1>2 DEF Spells

\* Parts that spell adjacent slices of b spell the slice they cover.
LEMMA SpellsParts ==
    ASSUME NEW types, NEW parts, List(parts), NEW k \in 0..Calls, NEW b \in Seq(Byte), NEW ends,
           \A i \in 1..(Len(parts) + 1) : ends[i] \in 0..Len(b),
           \A i \in 1..Len(parts) :
              /\ ends[i] <= ends[i + 1]
              /\ Spells(types, <<parts[i]>>, k, SubSeq(b, ends[i] + 1, ends[i + 1]))
    PROVE  /\ ends[1] <= ends[Len(parts) + 1]
           /\ Spells(types, parts, k, SubSeq(b, ends[1] + 1, ends[Len(parts) + 1]))
<1> DEFINE n == Len(parts)
           B == {d \in 0..n :
                   /\ ends[1] <= ends[d + 1]
                   /\ Spells(types, SubSeq(parts, 1, d), k, SubSeq(b, ends[1] + 1, ends[d + 1]))}
<1>1. n \in Nat /\ Len(b) \in Nat
  BY ListIs
<1>2. 0 \in B
  <2>1. 1 \in 1..(n + 1) /\ 0 + 1 = 1 /\ 0 \in 0..n
    BY <1>1
  <2>2. ends[1] \in 0..Len(b) /\ ends[1] \in Int /\ ends[1] < ends[1] + 1
    BY <1>1, <2>1
  <2>3. SubSeq(b, ends[1] + 1, ends[1]) = <<>>
    BY <2>2, SubSeqEmpty
  <2>4. <<>> \in Seq(Byte)
    OBVIOUS
  <2>5. Bytes(<<>>) = <<>>
    <3>1. List(Bytes(<<>>)) /\ Len(Bytes(<<>>)) = Len(<<>>) /\ Len(<<>>) = 0
      BY <2>4, BytesAre
    <3> QED
      BY <3>1, ListIs
  <2>6. Spells(types, <<>>, k, <<>>)
    BY <2>4, <2>5, SpellsBytes
  <2>7. SubSeq(parts, 1, 0) = <<>>
    BY ListGrows
  <2>8. ends[1] <= ends[0 + 1]
    BY <2>1, <2>2
  <2>9. Spells(types, SubSeq(parts, 1, 0), k, SubSeq(b, ends[1] + 1, ends[0 + 1]))
    BY <2>1, <2>3, <2>6, <2>7
  <2> QED
    BY <2>1, <2>8, <2>9
<1>3. ASSUME NEW d \in 1..n, d - 1 \in B
      PROVE  d \in B
  <2>1. /\ (d - 1) + 1 = d /\ d \in 1..(n + 1) /\ d + 1 \in 1..(n + 1) /\ 1 \in 1..(n + 1)
        /\ d \in 0..n
    BY <1>1
  <2>2. ends[1] \in 0..Len(b) /\ ends[d] \in 0..Len(b) /\ ends[d + 1] \in 0..Len(b)
    BY <2>1
  <2>3. ends[1] <= ends[d] /\ Spells(types, SubSeq(parts, 1, d - 1), k, SubSeq(b, ends[1] + 1, ends[d]))
    BY <1>3, <2>1
  <2>4. ends[d] <= ends[d + 1] /\ Spells(types, <<parts[d]>>, k, SubSeq(b, ends[d] + 1, ends[d + 1]))
    OBVIOUS
  <2>5. SubSeq(parts, 1, d) = SubSeq(parts, 1, d - 1) \o <<parts[d]>>
    BY ListGrows
  <2> DEFINE i == ends[1]
             j == ends[d]
             l == ends[d + 1]
             x == SubSeq(parts, 1, d - 1)
             o == <<parts[d]>>
  <2> HIDE DEF i, j, l, x, o
  <2>6. SubSeq(b, i + 1, j) \o SubSeq(b, j + 1, l) = SubSeq(b, i + 1, l)
    <3>1. i \in 0..Len(b) /\ j \in i..Len(b) /\ l \in j..Len(b)
      BY <1>1, <2>2, <2>3, <2>4 DEF i, j, l
    <3> QED
      BY <3>1, SlicesJoin
  <2>7. Spells(types, x \o o, k, SubSeq(b, i + 1, j) \o SubSeq(b, j + 1, l))
    BY <2>3, <2>4, SpellsConcat DEF i, j, l, x, o
  <2>8. i <= l
    BY <1>1, <2>2, <2>3, <2>4 DEF i, j, l
  <2> QED
    BY <2>1, <2>5, <2>6, <2>7, <2>8 DEF i, l, x, o
<1> HIDE DEF B
<1>4. \A d \in 0..n : d \in B
  <2> HIDE DEF n
  <2> QED
    BY <1>1, <1>2, <1>3, Climb
<1>5. n \in B
  BY <1>1, <1>4
<1>6. SubSeq(parts, 1, n) = parts
  BY ListGrows
<1> QED
  BY <1>5, <1>6 DEF B

\* The bytes one value is written as.
LEMMA EncodingIs ==
    ASSUME NEW types, NEW p, NEW s, Spells(types, <<p>>, Calls, s)
    PROVE  Encoding(types, p) = s
<1> DEFINE x == Writing(types, <<p>>)[Calls]
<1>1. s \in Seq(Byte) /\ x = Bytes(s)
  BY DEF Spells
<1>2. Len(x) = Len(s) /\ \A i \in 1..Len(s) : x[i] = Part("byte", s[i], 0)
  BY <1>1, BytesAre
<1>3. Encoding(types, p) = [i \in 1..Len(x) |-> x[i].value]
  BY DEF Encoding
<1> HIDE DEF x
<1>4. \A i \in 1..Len(s) : x[i].value = s[i]
  <2>1. \A i \in 1..Len(s) : Part("byte", s[i], 0).value = s[i]
    BY DEF Part
  <2> QED
    BY <1>2, <2>1
<1>5. s = [i \in 1..Len(s) |-> s[i]]
  BY <1>1, LenProperties
<1>6. [i \in 1..Len(x) |-> x[i].value] = [i \in 1..Len(s) |-> s[i]]
  BY <1>2, <1>4
<1> QED
  BY <1>3, <1>5, <1>6

----------------------------------------------------------------------------
(* Carrying out a decoder's calls. *)

\* h is what is read by up to n calls.
Readers(h, types, b, n) ==
    h = [d \in 0..n |-> IF d = 0 THEN [x \in Places(types, b) |-> {}]
                        ELSE ReadAll(types, b, h[d - 1])]

\* Reads is what its definition says.
LEMMA ReadersAre ==
    ASSUME NEW types, NEW b
    PROVE  Readers(Reads(types, b), types, b, Calls)
<1>0. Calls \in Nat
  BY CodecAssumption
<1> DEFINE n == Calls
           B == {m \in 0..n : \E h : Readers(h, types, b, m)}
<1>1. 0 \in B
  <2>1. Readers([d \in 0..0 |-> [x \in Places(types, b) |-> {}]], types, b, 0)
    BY DEF Readers
  <2> QED
    BY <1>0, <2>1
<1>2. ASSUME NEW m \in 1..n, m - 1 \in B
      PROVE  m \in B
  <2>1. PICK h : Readers(h, types, b, m - 1)
    BY <1>2
  <2> DEFINE g == [d \in 0..m |-> IF d = m THEN ReadAll(types, b, h[m - 1]) ELSE h[d]]
  <2>2. ASSUME NEW d \in 0..m
        PROVE  g[d] = IF d = 0 THEN [x \in Places(types, b) |-> {}] ELSE ReadAll(types, b, g[d - 1])
    <3>1. CASE d = m
      <4>1. d - 1 \in 0..m /\ d - 1 # m /\ d # 0
        BY <3>1
      <4> QED
        BY <3>1, <4>1
    <3>2. CASE d # m
      <4>1. d \in 0..(m - 1) /\ (d # 0 => d - 1 \in 0..m /\ d - 1 # m)
        BY <3>2
      <4>2. h[d] = IF d = 0 THEN [x \in Places(types, b) |-> {}] ELSE ReadAll(types, b, h[d - 1])
        BY <2>1, <4>1 DEF Readers
      <4>3. g[d] = h[d] /\ (d # 0 => g[d - 1] = h[d - 1])
        BY <3>2, <4>1
      <4> HIDE DEF g
      <4> QED
        BY <4>2, <4>3
    <3> QED
      BY <3>1, <3>2
  <2>3. g = [d \in 0..m |-> g[d]]
    OBVIOUS
  <2> HIDE DEF g
  <2>4. Readers(g, types, b, m)
    BY <2>2, <2>3 DEF Readers
  <2> QED
    BY <2>4
<1>3. n \in B
  <2>1. n \in Nat
    BY <1>0
  <2>2. \A m \in 1..n : m - 1 \in B => m \in B
    BY <1>2
  <2> HIDE DEF B, n
  <2>3. \A m \in 0..n : m \in B
    BY <1>1, <2>1, <2>2, Climb
  <2> QED
    BY <2>1, <2>3
<1>4. PICK h : Readers(h, types, b, n)
  BY <1>3
<1> QED
  BY <1>4, Zenon DEF Reads, Readers

\* What one more call reads.
LEMMA ReadsIs ==
    ASSUME NEW types, NEW b \in Seq(Byte), NEW name \in DOMAIN types, NEW at \in 0..Len(b),
           NEW depth \in 0..(MaxNesting + 1)
    PROVE  /\ Reads(types, b)[0][<<name, at, depth>>] = {}
           /\ \A k \in 1..Calls :
                 Reads(types, b)[k][<<name, at, depth>>] =
                    IF depth > MaxNesting THEN {}
                    ELSE ReadOne(Reads(types, b)[k - 1], types[name], b, at, depth)
<1> DEFINE x == <<name, at, depth>>
           h == Reads(types, b)
<1>0. Calls \in Nat
  BY CodecAssumption
<1>1. x \in Places(types, b) /\ x[1] = name /\ x[2] = at /\ x[3] = depth
  BY DEF Places
<1>2. Readers(h, types, b, Calls)
  BY ReadersAre
<1> HIDE DEF h, x
<1>3. h[0] = [y \in Places(types, b) |-> {}]
  BY <1>0, <1>2 DEF Readers
<1>4. ASSUME NEW k \in 1..Calls
      PROVE  h[k][x] = IF depth > MaxNesting THEN {}
                       ELSE ReadOne(h[k - 1], types[name], b, at, depth)
  <2>1. k \in 0..Calls /\ k # 0
    BY <1>0
  <2>2. h[k] = ReadAll(types, b, h[k - 1])
    BY <1>2, <2>1 DEF Readers
  <2> DEFINE g == h[k - 1]
  <2> HIDE DEF g
  <2>3. h[k] = ReadAll(types, b, g)
    BY <2>2 DEF g
  <2>4. h[k][x] = IF depth > MaxNesting THEN {} ELSE ReadOne(g, types[name], b, at, depth)
    BY <1>1, <2>3 DEF ReadAll
  <2> QED
    BY <2>4 DEF g
<1> QED
  BY <1>1, <1>3, <1>4 DEF h, x

\* h is what is read of the first n names.
Parting(h, reads, names, at, depth, n) ==
    h = [d \in 0..n |-> IF d = 0 THEN {[values |-> <<>>, ends |-> <<at>>]}
                        ELSE UNION {ReadNext(reads, names[d], depth, x) : x \in h[d - 1]}]

\* What is read of the names in order is what the definition says.
LEMMA PartingIs ==
    ASSUME NEW reads, NEW names, List(names), NEW at, NEW depth
    PROVE  \E h : /\ Parting(h, reads, names, at, depth, Len(names))
                  /\ ReadParts(reads, names, at, depth) = h[Len(names)]
<1>0. Len(names) \in Nat
  BY ListIs
<1> DEFINE n == Len(names)
           B == {m \in 0..n : \E h : Parting(h, reads, names, at, depth, m)}
<1>1. 0 \in B
  <2>1. Parting([d \in 0..0 |-> {[values |-> <<>>, ends |-> <<at>>]}], reads, names, at, depth, 0)
    BY DEF Parting
  <2> QED
    BY <1>0, <2>1
<1>2. ASSUME NEW m \in 1..n, m - 1 \in B
      PROVE  m \in B
  <2>1. PICK h : Parting(h, reads, names, at, depth, m - 1)
    BY <1>2
  <2> DEFINE g == [d \in 0..m |-> IF d = m THEN UNION {ReadNext(reads, names[m], depth, x) : x \in h[m - 1]} ELSE h[d]]
  <2>2. ASSUME NEW d \in 0..m
        PROVE  g[d] = IF d = 0 THEN {[values |-> <<>>, ends |-> <<at>>]} ELSE UNION {ReadNext(reads, names[d], depth, x) : x \in g[d - 1]}
    <3>1. CASE d = m
      <4>1. d - 1 \in 0..m /\ d - 1 # m /\ d # 0
        BY <3>1
      <4> QED
        BY <3>1, <4>1
    <3>2. CASE d # m
      <4>1. d \in 0..(m - 1) /\ (d # 0 => d - 1 \in 0..m /\ d - 1 # m)
        BY <3>2
      <4>2. h[d] = IF d = 0 THEN {[values |-> <<>>, ends |-> <<at>>]} ELSE UNION {ReadNext(reads, names[d], depth, x) : x \in h[d - 1]}
        BY <2>1, <4>1 DEF Parting
      <4>3. g[d] = h[d] /\ (d # 0 => g[d - 1] = h[d - 1])
        BY <3>2, <4>1
      <4> HIDE DEF g
      <4> QED
        BY <4>2, <4>3
    <3> QED
      BY <3>1, <3>2
  <2>3. g = [d \in 0..m |-> g[d]]
    OBVIOUS
  <2> HIDE DEF g
  <2>4. Parting(g, reads, names, at, depth, m)
    BY <2>2, <2>3 DEF Parting
  <2> QED
    BY <2>4
<1>3. n \in B
  <2>1. n \in Nat
    BY <1>0
  <2>2. \A m \in 1..n : m - 1 \in B => m \in B
    BY <1>2
  <2> HIDE DEF B, n
  <2>3. \A m \in 0..n : m \in B
    BY <1>1, <2>1, <2>2, Climb
  <2> QED
    BY <2>1, <2>3
<1>4. PICK h : Parting(h, reads, names, at, depth, n)
  BY <1>3
<1> DEFINE f == CHOOSE f : Parting(f, reads, names, at, depth, Len(names))
<1>5. Parting(f, reads, names, at, depth, Len(names))
  BY <1>4, Zenon
<1>6. ReadParts(reads, names, at, depth) = f[Len(names)]
  BY Zenon DEF ReadParts, Parting
<1> HIDE DEF f
<1> QED
  BY <1>5, <1>6

\* t is the list s with e after its last element.
Lengthens(t, s, e) ==
    /\ List(t) /\ Len(t) = Len(s) + 1
    /\ \A i \in 1..Len(s) : t[i] = s[i]
    /\ t[Len(s) + 1] = e
    /\ t = s \o <<e>>

\* A list with one element more.
LEMMA ListAppend ==
    ASSUME NEW s, NEW e, List(s)
    PROVE  Lengthens(Append(s, e), s, e)
<1>1. PICK D : s \in Seq(D)
  BY DEF List
<1> DEFINE U == D \cup {e}
<1>2. D \subseteq U /\ e \in U
  OBVIOUS
<1> HIDE DEF U
<1>3. s \in Seq(U)
  BY <1>1, <1>2, SeqMonotonic
<1>4. /\ Append(s, e) \in Seq(U) /\ Len(Append(s, e)) = Len(s) + 1
      /\ \A i \in 1..Len(s) : Append(s, e)[i] = s[i]
      /\ Append(s, e)[Len(s) + 1] = e
  BY <1>2, <1>3, AppendProperties
<1>5. Append(s, e) = s \o <<e>>
  BY <1>2, <1>3, AppendIsConcat
<1> DEFINE t == Append(s, e)
<1> HIDE DEF t
<1>6. /\ t \in Seq(U) /\ Len(t) = Len(s) + 1 /\ t[Len(s) + 1] = e /\ t = s \o <<e>>
      /\ \A i \in 1..Len(s) : t[i] = s[i]
  BY <1>4, <1>5, Zenon DEF t
<1>7. Lengthens(t, s, e)
  BY <1>6, Zenon DEF Lengthens, List
<1> QED
  BY <1>7, Zenon DEF t

\* d holds a reading of each of the first n names, one where the other ended.
Parted(reads, names, at, depth, n, d) ==
    /\ d = [values |-> d.values, ends |-> d.ends]
    /\ List(d.values) /\ Len(d.values) = n
    /\ List(d.ends) /\ Len(d.ends) = n + 1 /\ d.ends[1] = at
    /\ \A i \in 1..n : \E r \in reads[<<names[i], d.ends[i], depth>>] :
          d.values[i] = r.value /\ d.ends[i + 1] = r.next

\* One name more.
LEMMA PartedNext ==
    ASSUME NEW reads, NEW names, NEW at, NEW depth, NEW n \in Nat \ {0}, NEW d,
           Parted(reads, names, at, depth, n - 1, d),
           NEW x \in ReadNext(reads, names[n], depth, d)
    PROVE  Parted(reads, names, at, depth, n, x)
<1>1. n - 1 \in Nat /\ (n - 1) + 1 = n
  OBVIOUS
<1>2. /\ List(d.values) /\ Len(d.values) = n - 1
      /\ List(d.ends) /\ Len(d.ends) = n /\ d.ends[1] = at
  BY <1>1 DEF Parted
<1>3. \A i \in 1..(n - 1) : \E r \in reads[<<names[i], d.ends[i], depth>>] :
         d.values[i] = r.value /\ d.ends[i + 1] = r.next
  BY DEF Parted
<1>4. Last(d.ends) = d.ends[n]
  BY <1>2 DEF Last
<1>5. PICK r \in reads[<<names[n], d.ends[n], depth>>] :
         x = [values |-> Append(d.values, r.value), ends |-> Append(d.ends, r.next)]
  BY <1>4 DEF ReadNext
<1> DEFINE vs == d.values
           es == d.ends
           v == Append(vs, r.value)
           e == Append(es, r.next)
<1>6. x.values = v /\ x.ends = e /\ x = [values |-> x.values, ends |-> x.ends]
  BY <1>5
<1>7. List(v) /\ Len(v) = n /\ (\A i \in 1..(n - 1) : v[i] = vs[i]) /\ v[n] = r.value
  <2> DEFINE y == r.value
  <2> HIDE DEF vs, y
  <2>1. List(vs) /\ Len(vs) = n - 1
    BY <1>2 DEF vs
  <2>2. Lengthens(Append(vs, y), vs, y)
    BY <2>1, ListAppend, Zenon
  <2>3. Lengthens(v, vs, y) /\ y = r.value
    BY <2>2, Zenon DEF y
  <2> HIDE DEF v
  <2> QED
    BY <1>1, <2>1, <2>3 DEF Lengthens
<1>8. List(e) /\ Len(e) = n + 1 /\ (\A i \in 1..n : e[i] = es[i]) /\ e[n + 1] = r.next
  <2> DEFINE j == r.next
  <2> HIDE DEF es, j
  <2>1. List(es) /\ Len(es) = n
    BY <1>2 DEF es
  <2>2. Lengthens(Append(es, j), es, j)
    BY <2>1, ListAppend, Zenon
  <2>3. Lengthens(e, es, j) /\ j = r.next
    BY <2>2, Zenon DEF j
  <2> HIDE DEF e
  <2> QED
    BY <1>1, <2>1, <2>3 DEF Lengthens
<1> HIDE DEF v, e
<1>9. e[1] = at
  BY <1>2, <1>8
<1>10. ASSUME NEW i \in 1..n
       PROVE  \E q \in reads[<<names[i], e[i], depth>>] : v[i] = q.value /\ e[i + 1] = q.next
  <2>1. CASE i = n
    <3>1. e[n] = es[n]
      BY <1>8
    <3>2. r \in reads[<<names[i], e[i], depth>>] /\ v[i] = r.value /\ e[i + 1] = r.next
      BY <1>7, <1>8, <2>1, <3>1
    <3> QED
      BY <3>2
  <2>2. CASE i # n
    <3>1. i \in 1..(n - 1) /\ i + 1 \in 1..n
      BY <2>2
    <3>2. PICK q \in reads[<<names[i], es[i], depth>>] : vs[i] = q.value /\ es[i + 1] = q.next
      BY <1>3, <3>1
    <3>3. e[i] = es[i] /\ e[i + 1] = es[i + 1] /\ v[i] = vs[i]
      BY <1>7, <1>8, <3>1
    <3>4. q \in reads[<<names[i], e[i], depth>>] /\ v[i] = q.value /\ e[i + 1] = q.next
      BY <3>2, <3>3
    <3> QED
      BY <3>4
  <2> QED
    BY <2>1, <2>2
<1> QED
  BY <1>6, <1>7, <1>8, <1>9, <1>10 DEF Parted

\* What is read of a list of names is a reading of each.
LEMMA PartsAre ==
    ASSUME NEW reads, NEW names, List(names), NEW at, NEW depth,
           NEW d \in ReadParts(reads, names, at, depth)
    PROVE  Parted(reads, names, at, depth, Len(names), d)
<1> DEFINE n == Len(names)
<1>0. n \in Nat
  BY ListIs
<1>1. PICK h : Parting(h, reads, names, at, depth, n) /\ ReadParts(reads, names, at, depth) = h[n]
  BY PartingIs
<1> HIDE DEF n
<1> DEFINE B == {m \in 0..n : \A x \in h[m] : Parted(reads, names, at, depth, m, x)}
<1>2. 0 \in B
  <2>1. 0 \in 0..n
    BY <1>0
  <2>2. h[0] = {[values |-> <<>>, ends |-> <<at>>]}
    BY <1>1, <2>1 DEF Parting
  <2> DEFINE x == [values |-> <<>>, ends |-> <<at>>]
  <2>3. x.values = <<>> /\ x.ends = <<at>> /\ x = [values |-> x.values, ends |-> x.ends]
    OBVIOUS
  <2>4. List(<<>>) /\ Len(<<>>) = 0
    <3>1. <<>> \in Seq({}) /\ Len(<<>>) = 0
      OBVIOUS
    <3> QED
      BY <3>1 DEF List
  <2>5. List(<<at>>) /\ Len(<<at>>) = 1 /\ <<at>>[1] = at
    BY ListOfOne
  <2>6. \A i \in 1..0 : FALSE
    OBVIOUS
  <2> HIDE DEF x
  <2>7. Parted(reads, names, at, depth, 0, x)
    BY <2>3, <2>4, <2>5, <2>6 DEF Parted
  <2> QED
    BY <2>1, <2>2, <2>7 DEF x
<1>3. ASSUME NEW m \in 1..n, m - 1 \in B
      PROVE  m \in B
  <2>1. m \in 0..n /\ m # 0 /\ m \in Nat \ {0}
    BY <1>0
  <2>2. h[m] = UNION {ReadNext(reads, names[m], depth, x) : x \in h[m - 1]}
    BY <1>1, <2>1 DEF Parting
  <2>3. ASSUME NEW y \in h[m]
        PROVE  Parted(reads, names, at, depth, m, y)
    <3>1. PICK x \in h[m - 1] : y \in ReadNext(reads, names[m], depth, x)
      BY <2>2
    <3>2. Parted(reads, names, at, depth, m - 1, x)
      BY <1>3
    <3> QED
      BY <2>1, <3>1, <3>2, PartedNext
  <2> QED
    BY <2>1, <2>3
<1> HIDE DEF B
<1>4. \A m \in 0..n : m \in B
  BY <1>0, <1>2, <1>3, Climb
<1>5. n \in B
  BY <1>0, <1>4
<1> QED
  BY <1>1, <1>5 DEF B, n

\* A reading of each, one where the other ended, is read of the list.
LEMMA PartsAreRead ==
    ASSUME NEW reads, NEW names, List(names), NEW at, NEW depth, NEW d,
           Parted(reads, names, at, depth, Len(names), d)
    PROVE  d \in ReadParts(reads, names, at, depth)
<1> DEFINE n == Len(names)
           vs == d.values
           es == d.ends
           cut(m) == [values |-> SubSeq(vs, 1, m), ends |-> SubSeq(es, 1, m + 1)]
<1>0. n \in Nat
  BY ListIs
<1>1. PICK h : Parting(h, reads, names, at, depth, n) /\ ReadParts(reads, names, at, depth) = h[n]
  BY PartingIs
<1>2. /\ d = [values |-> vs, ends |-> es] /\ List(vs) /\ Len(vs) = n
      /\ List(es) /\ Len(es) = n + 1 /\ es[1] = at
      /\ \A i \in 1..n : \E r \in reads[<<names[i], es[i], depth>>] :
            vs[i] = r.value /\ es[i + 1] = r.next
  BY DEF Parted
<1> HIDE DEF n, vs, es
<1> DEFINE B == {m \in 0..n : cut(m) \in h[m]}
<1>3. 0 \in B
  <2>1. 0 \in 0..n /\ 0 + 1 = 1 /\ 1 - 1 = 0 /\ 1 \in 1..Len(es)
    BY <1>0, <1>2
  <2>2. h[0] = {[values |-> <<>>, ends |-> <<at>>]}
    BY <1>1, <2>1 DEF Parting
  <2>3. SubSeq(vs, 1, 0) = <<>> /\ SubSeq(es, 1, 0) = <<>>
    BY <1>2, ListGrows
  <2>4. SubSeq(es, 1, 1) = SubSeq(es, 1, 0) \o <<es[1]>>
    BY <1>2, <2>1, ListGrows
  <2>5. List(<<at>>)
    BY ListOfOne
  <2>6. <<>> \o <<at>> = <<at>>
    BY <2>5, ListAssociates
  <2>7. SubSeq(es, 1, 1) = <<at>>
    BY <1>2, <2>3, <2>4, <2>6
  <2>8. cut(0) = [values |-> <<>>, ends |-> <<at>>]
    BY <2>1, <2>3, <2>7
  <2> QED
    BY <2>1, <2>2, <2>8
<1>4. ASSUME NEW m \in 1..n, m - 1 \in B
      PROVE  m \in B
  <2>1. /\ m \in 0..n /\ m # 0 /\ m \in 1..Len(vs) /\ m + 1 \in 1..Len(es)
        /\ (m - 1) + 1 = m /\ (m + 1) - 1 = m /\ m \in 0..Len(es) /\ m - 1 \in 0..Len(vs)
        /\ m \in Nat /\ m >= 1
    BY <1>0, <1>2
  <2>2. h[m] = UNION {ReadNext(reads, names[m], depth, x) : x \in h[m - 1]}
    BY <1>1, <2>1 DEF Parting
  <2>3. PICK r \in reads[<<names[m], es[m], depth>>] : vs[m] = r.value /\ es[m + 1] = r.next
    BY <1>2
  <2> DEFINE x == cut(m - 1)
             a == SubSeq(vs, 1, m - 1)
             e == SubSeq(es, 1, m)
  <2>4. x.values = a /\ x.ends = e
    BY <2>1
  <2>5. x \in h[m - 1]
    BY <1>4
  <2>6. List(a) /\ SubSeq(vs, 1, m) = a \o <<r.value>>
    <3>1. SubSeq(vs, 1, m) = a \o <<vs[m]>>
      BY <1>2, <2>1, ListGrows
    <3>2. List(a)
      BY <1>2, <2>1, ListPrefix
    <3> QED
      BY <2>3, <3>1, <3>2
  <2>7. List(e) /\ Len(e) = m /\ e[m] = es[m] /\ SubSeq(es, 1, m + 1) = e \o <<r.next>>
    <3>1. SubSeq(es, 1, m + 1) = SubSeq(es, 1, (m + 1) - 1) \o <<es[m + 1]>>
      BY <1>2, <2>1, ListGrows
    <3>2. List(e) /\ Len(e) = m /\ \A i \in 1..m : e[i] = es[i]
      BY <1>2, <2>1, ListPrefix
    <3>3. e[m] = es[m]
      BY <2>1, <3>2
    <3> QED
      BY <2>1, <2>3, <3>1, <3>2, <3>3
  <2> HIDE DEF a, e
  <2>8. Append(a, r.value) = a \o <<r.value>> /\ Append(e, r.next) = e \o <<r.next>>
    <3>1. Lengthens(Append(a, r.value), a, r.value) /\ Lengthens(Append(e, r.next), e, r.next)
      BY <2>6, <2>7, ListAppend, Zenon
    <3> QED
      BY <3>1, Zenon DEF Lengthens
  <2>9. Last(e) = es[m]
    BY <2>7 DEF Last
  <2>10. cut(m) = [values |-> Append(a, r.value), ends |-> Append(e, r.next)]
    BY <2>6, <2>7, <2>8
  <2> HIDE DEF cut
  <2>11. cut(m) \in ReadNext(reads, names[m], depth, x)
    BY <2>3, <2>4, <2>9, <2>10 DEF ReadNext
  <2> QED
    BY <2>1, <2>2, <2>5, <2>11
<1> HIDE DEF B
<1>5. \A m \in 0..n : m \in B
  BY <1>0, <1>3, <1>4, Climb
<1>6. cut(n) \in h[n]
  <2>1. n \in B
    BY <1>0, <1>5
  <2> QED
    BY <2>1 DEF B
<1>7. cut(n) = d
  <2>1. SubSeq(vs, 1, n) = vs /\ SubSeq(es, 1, n + 1) = es
    BY <1>2, ListGrows
  <2> QED
    BY <1>2, <2>1
<1> QED
  BY <1>1, <1>6, <1>7 DEF n

\* A list of names is read in one way, when each name is at every position met.
LEMMA PartsOnce ==
    ASSUME NEW reads, NEW names, List(names), NEW at, NEW depth, NEW E,
           \A i \in 1..Len(names) : \A e \in E :
              \A r, q \in reads[<<names[i], e, depth>>] : r = q,
           NEW d \in ReadParts(reads, names, at, depth), NEW x \in ReadParts(reads, names, at, depth),
           \A i \in 1..(Len(names) + 1) : d.ends[i] \in E
    PROVE  d = x
<1> DEFINE n == Len(names)
           B == {m \in 0..n : d.ends[m + 1] = x.ends[m + 1]}
<1>0. n \in Nat
  BY ListIs
<1>1. Parted(reads, names, at, depth, n, d)
  BY PartsAre
<1>2. Parted(reads, names, at, depth, n, x)
  BY PartsAre
<1> HIDE DEF n
<1>3. 0 \in B
  BY <1>0, <1>1, <1>2 DEF Parted
<1>4. ASSUME NEW m \in 1..n, d.ends[m] = x.ends[m]
      PROVE  d.ends[m + 1] = x.ends[m + 1] /\ d.values[m] = x.values[m]
  <2>1. PICK r \in reads[<<names[m], d.ends[m], depth>>] :
           d.values[m] = r.value /\ d.ends[m + 1] = r.next
    BY <1>1 DEF Parted
  <2>2. PICK q \in reads[<<names[m], x.ends[m], depth>>] :
           x.values[m] = q.value /\ x.ends[m + 1] = q.next
    BY <1>2 DEF Parted
  <2>3. d.ends[m] \in E /\ m \in 1..Len(names)
    <3>1. m \in 1..(Len(names) + 1) /\ m \in 1..Len(names)
      BY <1>0 DEF n
    <3> QED
      BY <3>1
  <2>4. r = q
    BY <1>4, <2>1, <2>2, <2>3
  <2> QED
    BY <2>1, <2>2, <2>4
<1>5. ASSUME NEW m \in 1..n, m - 1 \in B
      PROVE  m \in B
  <2>1. (m - 1) + 1 = m /\ m \in 0..n
    BY <1>0
  <2> QED
    BY <1>4, <1>5, <2>1
<1> HIDE DEF B
<1>6. \A m \in 0..n : m \in B
  BY <1>0, <1>3, <1>5, Climb
<1>7. ASSUME NEW i \in 1..(n + 1)
      PROVE  d.ends[i] = x.ends[i]
  <2>1. i - 1 \in 0..n /\ (i - 1) + 1 = i
    BY <1>0
  <2>2. i - 1 \in B
    BY <1>6, <2>1
  <2> QED
    BY <2>1, <2>2 DEF B
<1>8. ASSUME NEW i \in 1..n
      PROVE  d.values[i] = x.values[i]
  <2>1. i \in 1..(n + 1)
    BY <1>0
  <2> QED
    BY <1>4, <1>7, <2>1
<1>9. d.ends = x.ends
  BY <1>1, <1>2, <1>7, ListEqual DEF Parted
<1>10. d.values = x.values
  BY <1>1, <1>2, <1>8, ListEqual DEF Parted
<1> QED
  BY <1>1, <1>2, <1>9, <1>10 DEF Parted

----------------------------------------------------------------------------
(* What is read is what would be written. *)

\* A schema that names only the schemas D.
Naming(D, s) ==
    /\ s.form \in {"varint", "octet", "raw", "text", "option", "many", "nested",
                   "struct", "checked", "tagged"}
    /\ s.form = "raw" => s.width \in Nat \ {0}
    /\ s.form \in {"option", "many", "nested"} => s.of \in D /\ s.nests \in {0, 1}
    /\ s.form \in {"struct", "checked"} => s.fields \in Seq(D) /\ s.fields # <<>>
    /\ s.form = "tagged" => s.tag \in D /\ \A t \in DOMAIN s.cases : s.cases[t] \in D

\* The schemas name one another.
WellNamed(types) ==
    /\ "byte" \notin DOMAIN types
    /\ \A name \in DOMAIN types : Naming(DOMAIN types, types[name])

\* What reads gives is a value, and the bytes it was read from are its
\* encoding, k calls deep.
Sound(types, b, reads, k) ==
    \A name \in DOMAIN types, at \in 0..Len(b), depth \in 0..(MaxNesting + 1) :
       \A r \in reads[<<name, at, depth>>] :
          /\ r.next \in at..Len(b)
          /\ Spells(types, <<Part(name, r.value, depth)>>, k, SubSeq(b, at + 1, r.next))

\* One part after another.
LEMMA PartsSpell ==
    ASSUME NEW types, NEW b \in Seq(Byte), NEW k \in 0..Calls, NEW reads,
           Sound(types, b, reads, k), NEW names, List(names),
           \A i \in 1..Len(names) : names[i] \in DOMAIN types,
           NEW at \in 0..Len(b), NEW depth \in 0..(MaxNesting + 1),
           NEW d \in ReadParts(reads, names, at, depth)
    PROVE  /\ Parted(reads, names, at, depth, Len(names), d)
           /\ Last(d.ends) = d.ends[Len(names) + 1]
           /\ \A i \in 1..(Len(names) + 1) : d.ends[i] \in at..Len(b)
           /\ \A i \in 1..Len(names) :
                 /\ d.ends[i] <= d.ends[i + 1]
                 /\ Spells(types, <<Part(names[i], d.values[i], depth)>>, k,
                           SubSeq(b, d.ends[i] + 1, d.ends[i + 1]))
           /\ \A parts : List(parts) /\ Len(parts) = Len(names)
                         /\ (\A i \in 1..Len(names) : parts[i] = Part(names[i], d.values[i], depth))
                         => Spells(types, parts, k, SubSeq(b, at + 1, Last(d.ends)))
<1> DEFINE n == Len(names)
           es == d.ends
           vs == d.values
           B == {m \in 0..n : es[m + 1] \in at..Len(b)}
<1>0. n \in Nat /\ Len(b) \in Nat /\ at \in Nat
  BY ListIs
<1>1. Parted(reads, names, at, depth, n, d)
  BY PartsAre
<1> HIDE DEF n
<1>2. /\ List(es) /\ Len(es) = n + 1 /\ es[1] = at
      /\ \A i \in 1..n : \E r \in reads[<<names[i], es[i], depth>>] :
            vs[i] = r.value /\ es[i + 1] = r.next
  BY <1>1 DEF Parted
<1> HIDE DEF es, vs
<1>3. ASSUME NEW i \in 1..n, es[i] \in 0..Len(b)
      PROVE  /\ es[i + 1] \in es[i]..Len(b)
             /\ Spells(types, <<Part(names[i], vs[i], depth)>>, k, SubSeq(b, es[i] + 1, es[i + 1]))
  <2>1. PICK r \in reads[<<names[i], es[i], depth>>] : vs[i] = r.value /\ es[i + 1] = r.next
    BY <1>2
  <2>2. names[i] \in DOMAIN types
    BY DEF n
  <2>3. /\ r.next \in es[i]..Len(b)
        /\ Spells(types, <<Part(names[i], r.value, depth)>>, k, SubSeq(b, es[i] + 1, r.next))
    BY <1>3, <2>1, <2>2 DEF Sound
  <2> QED
    BY <2>1, <2>3
<1>4. 0 \in B
  BY <1>0, <1>2
<1>5. ASSUME NEW m \in 1..n, m - 1 \in B
      PROVE  m \in B
  <2>1. (m - 1) + 1 = m /\ m \in 0..n
    BY <1>0
  <2>2. es[m] \in at..Len(b)
    BY <1>5, <2>1
  <2>3. es[m] \in 0..Len(b)
    BY <1>0, <2>2
  <2>4. es[m + 1] \in es[m]..Len(b)
    BY <1>3, <2>3
  <2>5. es[m + 1] \in at..Len(b)
    BY <1>0, <2>2, <2>4
  <2> QED
    BY <2>1, <2>5
<1> HIDE DEF B
<1>6. \A m \in 0..n : m \in B
  BY <1>0, <1>4, <1>5, Climb
<1>7. ASSUME NEW i \in 1..(n + 1)
      PROVE  es[i] \in at..Len(b) /\ es[i] \in 0..Len(b)
  <2>1. i - 1 \in 0..n /\ (i - 1) + 1 = i
    BY <1>0
  <2>2. es[i] \in at..Len(b)
    BY <1>6, <2>1 DEF B
  <2> QED
    BY <1>0, <2>2
<1>8. ASSUME NEW i \in 1..n
      PROVE  /\ es[i] <= es[i + 1]
             /\ Spells(types, <<Part(names[i], vs[i], depth)>>, k, SubSeq(b, es[i] + 1, es[i + 1]))
  <2>1. i \in 1..(n + 1)
    BY <1>0
  <2>2. es[i] \in 0..Len(b) /\ es[i] \in at..Len(b)
    BY <1>7, <2>1
  <2>3. es[i + 1] \in es[i]..Len(b)
    BY <1>3, <2>2
  <2> QED
    BY <1>0, <1>3, <2>2, <2>3
<1>9. Last(es) = es[n + 1]
  BY <1>2 DEF Last
<1>10. ASSUME NEW parts, List(parts), Len(parts) = n,
              \A i \in 1..n : parts[i] = Part(names[i], vs[i], depth)
       PROVE  Spells(types, parts, k, SubSeq(b, at + 1, Last(es)))
  <2>1. \A i \in 1..(Len(parts) + 1) : es[i] \in 0..Len(b)
    BY <1>7, <1>10
  <2>2. \A i \in 1..Len(parts) :
           /\ es[i] <= es[i + 1]
           /\ Spells(types, <<parts[i]>>, k, SubSeq(b, es[i] + 1, es[i + 1]))
    <3> SUFFICES ASSUME NEW i \in 1..n
                 PROVE  /\ es[i] <= es[i + 1]
                        /\ Spells(types, <<parts[i]>>, k, SubSeq(b, es[i] + 1, es[i + 1]))
      BY <1>10
    <3>1. parts[i] = Part(names[i], vs[i], depth)
      BY <1>10
    <3> QED
      BY <1>8, <3>1
  <2>3. Spells(types, parts, k, SubSeq(b, es[1] + 1, es[Len(parts) + 1]))
    BY <1>10, <2>1, <2>2, SpellsParts
  <2> QED
    BY <1>2, <1>9, <1>10, <2>3
<1> QED
  BY <1>1, <1>7, <1>8, <1>9, <1>10 DEF n, es, vs

\* One byte is what it is.
LEMMA OneTaken ==
    ASSUME NEW b \in Seq(Byte), NEW at \in 0..Len(b), NEW r \in Take(b, at, 1)
    PROVE  /\ r.next = at + 1 /\ r.next \in at..Len(b) /\ r.value = <<r.value[1]>>
           /\ r.value \in Seq(Byte) /\ r.value = SubSeq(b, at + 1, r.next)
           /\ r.value[1] \in Byte
<1> DEFINE v == r.value
           w == 1
<1>1. w \in Nat /\ r \in Take(b, at, w)
  OBVIOUS
<1> HIDE DEF w
<1>2. /\ r.next = at + w /\ r.next \in at..Len(b) /\ r.value = SubSeq(b, at + 1, r.next)
      /\ r.value \in Seq(Byte) /\ Len(r.value) = w
  BY <1>1, Taken
<1>3. v \in Seq(Byte) /\ Len(v) = 1
  BY <1>2 DEF w
<1> HIDE DEF v
<1>4. v = <<v[1]>> /\ v[1] \in Byte
  BY <1>3
<1> QED
  BY <1>2, <1>4 DEF v, w

\* Two adjacent slices spelled by two lists of parts.
LEMMA SpellsTwo ==
    ASSUME NEW types, NEW x, NEW y, NEW k \in 0..Calls, NEW b \in Seq(Byte),
           NEW i \in 0..Len(b), NEW j \in i..Len(b), NEW l \in j..Len(b),
           Spells(types, x, k, SubSeq(b, i + 1, j)), Spells(types, y, k, SubSeq(b, j + 1, l))
    PROVE  Spells(types, x \o y, k, SubSeq(b, i + 1, l)) /\ l \in i..Len(b)
<1>1. SubSeq(b, i + 1, j) \o SubSeq(b, j + 1, l) = SubSeq(b, i + 1, l)
  BY SlicesJoin
<1> DEFINE s == SubSeq(b, i + 1, j)
           t == SubSeq(b, j + 1, l)
<1>2. Spells(types, x \o y, k, s \o t)
  <2> HIDE DEF s, t
  <2>1. Spells(types, x, k, s) /\ Spells(types, y, k, t)
    BY DEF s, t
  <2> QED
    BY <2>1, SpellsConcat
<1>3. l \in i..Len(b)
  OBVIOUS
<1> QED
  BY <1>1, <1>2, <1>3

\* Two parts, one after the other.
LEMMA TwoParts ==
    ASSUME NEW p, NEW q
    PROVE  <<p>> \o <<q>> = <<p, q>>
<1> DEFINE x == <<p>>
           y == <<q>>
           z == <<p, q>>
<1>1. List(x) /\ Len(x) = 1 /\ x[1] = p /\ List(y) /\ Len(y) = 1 /\ y[1] = q
  BY ListOfOne
<1>2. z \in Seq({p, q}) /\ Len(z) = 2 /\ z[1] = p /\ z[2] = q
  OBVIOUS
<1>3. List(z)
  BY <1>2 DEF List
<1> HIDE DEF x, y, z
<1>4. (\A i \in 1..1 : i = 1) /\ 1 + 1 = 2
  OBVIOUS
<1>5. (\A i \in 1..Len(x) : z[i] = x[i]) /\ (\A i \in 1..Len(y) : z[Len(x) + i] = y[i])
  BY <1>1, <1>2, <1>4
<1>6. z = x \o y
  BY <1>1, <1>2, <1>3, <1>4, <1>5, ListSplits
<1> QED
  BY <1>6 DEF x, y, z

\* The depth at which elements are read is this one or the next.
LEMMA InsideIs ==
    ASSUME NEW s, s.nests \in {0, 1}, NEW depth \in 0..MaxNesting
    PROVE  Inside(s, depth) \in 0..(MaxNesting + 1)
<1> DEFINE n == s.nests
<1>1. Inside(s, depth) = depth + n
  BY DEF Inside
<1>2. n \in {0, 1}
  OBVIOUS
<1> HIDE DEF n
<1> QED
  BY <1>1, <1>2, CodecAssumption

\* What a decoder reads, the encoder would have written: one call.
LEMMA ReadOneSound ==
    ASSUME NEW types, WellNamed(types), NEW b \in Seq(Byte), NEW k \in 0..Calls, NEW reads,
           Sound(types, b, reads, k), NEW name \in DOMAIN types, NEW at \in 0..Len(b),
           NEW depth \in 0..MaxNesting, NEW r \in ReadOne(reads, types[name], b, at, depth)
    PROVE  /\ r.next \in at..Len(b)
           /\ Spells(types, Writes(types, Part(name, r.value, depth)), k, SubSeq(b, at + 1, r.next))
<1> DEFINE s == types[name]
           v == r.value
           p == Part(name, v, depth)
           w == Writes(types, p)
<1>0. /\ MaxNesting \in Nat /\ Len(b) \in Nat /\ at \in Nat /\ MaxLength \in Nat /\ MaxCount \in Nat
      /\ U64 \in Nat
  BY CodecAssumption
<1>1. depth \in 0..(MaxNesting + 1)
  BY <1>0
<1>2. /\ s.form \in {"varint", "octet", "raw", "text", "option", "many", "nested",
                     "struct", "checked", "tagged"}
      /\ s.form = "raw" => s.width \in Nat \ {0}
      /\ s.form \in {"option", "many", "nested"} => s.of \in DOMAIN types /\ s.nests \in {0, 1}
      /\ s.form \in {"struct", "checked"} => s.fields \in Seq(DOMAIN types) /\ s.fields # <<>>
      /\ s.form = "tagged" =>
            s.tag \in DOMAIN types /\ \A t \in DOMAIN s.cases : s.cases[t] \in DOMAIN types
  BY DEF WellNamed, Naming
<1>3. p.name # "byte" /\ s = types[p.name] /\ p.value = v /\ p.depth = depth /\ w = Writes(types, p)
  BY DEF WellNamed, Naming, Part
<1>3a. s.form \in {"option", "many", "nested"} => Inside(s, depth) \in 0..(MaxNesting + 1)
  <2> HIDE DEF s
  <2> QED
    BY <1>2, InsideIs
<1>4. r \in ReadOne(reads, s, b, at, depth)
  OBVIOUS
<1> HIDE DEF s, w, p
<1> SUFFICES r.next \in at..Len(b) /\ Spells(types, w, k, SubSeq(b, at + 1, r.next))
  BY DEF w, p
<1>5. CASE s.form = "varint"
  <2>1. r \in ReadVarint(b, at)
    BY <1>4, <1>5 DEF ReadOne
  <2>2. r.next \in (at + 1)..Len(b) /\ Varint[v] = SubSeq(b, at + 1, r.next)
    BY <2>1, VarintRead
  <2>3. w = Bytes(Varint[v])
    BY <1>3, <1>5 DEF Writes
  <2>4. r.next \in at..Len(b)
    BY <1>0, <2>2
  <2>5. SubSeq(b, at + 1, r.next) \in Seq(Byte)
    BY <2>4, Slice
  <2> QED
    BY <2>2, <2>3, <2>4, <2>5, SpellsBytes
<1>6. CASE s.form = "octet"
  <2>1. PICK x \in Take(b, at, 1) : r = Reading(x.value[1], x.next)
    BY <1>4, <1>6 DEF ReadOne
  <2>2. /\ x.next \in at..Len(b) /\ x.value = <<x.value[1]>>
        /\ x.value \in Seq(Byte) /\ x.value = SubSeq(b, at + 1, x.next)
    BY <2>1, OneTaken
  <2>3. v = x.value[1] /\ r.next = x.next
    BY <2>1 DEF Reading
  <2>4. w = Bytes(<<v>>)
    BY <1>3, <1>6 DEF Writes
  <2>5. w = Bytes(SubSeq(b, at + 1, r.next)) /\ SubSeq(b, at + 1, r.next) \in Seq(Byte)
    BY <2>2, <2>3, <2>4
  <2> QED
    BY <2>2, <2>3, <2>5, SpellsBytes
<1>7. CASE s.form = "raw"
  <2>1. r \in Take(b, at, s.width) /\ s.width \in Nat
    BY <1>2, <1>4, <1>7 DEF ReadOne
  <2>2. r.next \in at..Len(b) /\ v = SubSeq(b, at + 1, r.next) /\ v \in Seq(Byte)
    BY <2>1, Taken
  <2>3. w = Bytes(v)
    BY <1>3, <1>7 DEF Writes
  <2> QED
    BY <2>2, <2>3, SpellsBytes
<1>8. CASE s.form = "text"
  <2>1. PICK n \in ReadLength(b, at, MaxLength) : r \in Take(b, n.next, n.value)
    BY <1>4, <1>8 DEF ReadOne
  <2>2. /\ n.value \in 0..(U64 - 1) /\ n.next \in (at + 1)..Len(b)
        /\ Varint[n.value] = SubSeq(b, at + 1, n.next)
    BY <1>0, <2>1, LengthRead
  <2>3. n.next \in 0..Len(b) /\ n.next \in at..Len(b) /\ n.value \in Nat
    BY <1>0, <2>2
  <2>4. /\ r.next \in n.next..Len(b) /\ v = SubSeq(b, n.next + 1, r.next)
        /\ v \in Seq(Byte) /\ Len(v) = n.value
    <3> DEFINE i == n.next
               l == n.value
    <3>1. i \in 0..Len(b) /\ l \in Nat /\ r \in Take(b, i, l)
      BY <2>1, <2>3
    <3> HIDE DEF i, l, v
    <3>2. /\ r.next \in i..Len(b) /\ r.value = SubSeq(b, i + 1, r.next)
          /\ r.value \in Seq(Byte) /\ Len(r.value) = l
      BY <3>1, Taken
    <3> QED
      BY <3>2 DEF i, l, v
  <2>5. w = Bytes(Varint[Len(v)] \o v)
    BY <1>3, <1>8 DEF Writes
  <2>6. Varint[Len(v)] \o v = SubSeq(b, at + 1, r.next)
    <3>1. SubSeq(b, at + 1, n.next) \o SubSeq(b, n.next + 1, r.next) = SubSeq(b, at + 1, r.next)
      BY <2>3, <2>4, SlicesJoin
    <3> QED
      BY <2>2, <2>4, <3>1
  <2>7. r.next \in at..Len(b)
    BY <1>0, <2>2, <2>4
  <2>8. SubSeq(b, at + 1, r.next) \in Seq(Byte)
    BY <2>7, Slice
  <2> QED
    BY <2>5, <2>6, <2>7, <2>8, SpellsBytes
<1>9. CASE s.form = "option"
  <2>1. PICK x \in Take(b, at, 1) :
           r \in IF x.value = <<0>> THEN {Reading(<<>>, x.next)}
                 ELSE IF x.value = <<1>>
                 THEN {Reading(<<y.value>>, y.next) : y \in reads[<<s.of, x.next, Inside(s, depth)>>]}
                 ELSE {}
    BY <1>4, <1>9 DEF ReadOne
  <2>2. /\ x.next \in at..Len(b) /\ x.value \in Seq(Byte) /\ x.value = SubSeq(b, at + 1, x.next)
    BY <2>1, OneTaken
  <2>3. w = IF v = <<>> THEN Bytes(<<0>>) ELSE Bytes(<<1>>) \o <<Part(s.of, v[1], Inside(s, depth))>>
    BY <1>3, <1>9 DEF Writes
  <2>4. CASE x.value = <<0>>
    <3>1. v = <<>> /\ r.next = x.next
      BY <2>1, <2>4 DEF Reading
    <3>2. w = Bytes(SubSeq(b, at + 1, r.next)) /\ SubSeq(b, at + 1, r.next) \in Seq(Byte)
      BY <2>2, <2>3, <2>4, <3>1
    <3> QED
      BY <2>2, <3>1, <3>2, SpellsBytes
  <2>5. CASE x.value # <<0>>
    <3>1. x.value = <<1>>
      BY <2>1, <2>5
    <3>2. PICK y \in reads[<<s.of, x.next, Inside(s, depth)>>] : r = Reading(<<y.value>>, y.next)
      BY <2>1, <2>5
    <3>3. v = <<y.value>> /\ v[1] = y.value /\ v # <<>> /\ r.next = y.next
      BY <3>2 DEF Reading
    <3>4. x.next \in 0..Len(b)
      BY <1>0, <2>2
    <3>5. /\ y.next \in x.next..Len(b)
          /\ Spells(types, <<Part(s.of, y.value, Inside(s, depth))>>, k, SubSeq(b, x.next + 1, y.next))
      BY <1>2, <1>3a, <1>9, <3>2, <3>4 DEF Sound
    <3>6. Spells(types, Bytes(<<1>>), k, SubSeq(b, at + 1, x.next))
      <4>1. Bytes(<<1>>) = Bytes(SubSeq(b, at + 1, x.next)) /\ SubSeq(b, at + 1, x.next) \in Seq(Byte)
        BY <2>2, <3>1
      <4> QED
        BY <4>1, SpellsBytes
    <3> DEFINE u == Bytes(<<1>>)
               o == <<Part(s.of, y.value, Inside(s, depth))>>
               i == x.next
               j == y.next
    <3>7. w = u \o o
      BY <2>3, <3>3
    <3> HIDE DEF u, o, i, j
    <3>8. Spells(types, u \o o, k, SubSeq(b, at + 1, j)) /\ j \in at..Len(b)
      BY <2>2, <3>5, <3>6, SpellsTwo DEF u, o, i, j
    <3> QED
      BY <3>3, <3>7, <3>8 DEF j
  <2> QED
    BY <2>4, <2>5
<1>10. CASE s.form = "many"
  <2>1. PICK n \in ReadLength(b, at, MaxCount) : r \in ReadMany(reads, s, b, n.value, n.next, Inside(s, depth))
    BY <1>4, <1>10 DEF ReadOne
  <2>2. /\ n.value \in 0..(U64 - 1) /\ n.next \in (at + 1)..Len(b)
        /\ Varint[n.value] = SubSeq(b, at + 1, n.next)
    BY <1>0, <2>1, LengthRead
  <2>3. n.next \in 0..Len(b) /\ n.next \in at..Len(b) /\ n.value \in Nat
    BY <1>0, <2>2
  <2> DEFINE names == [i \in 1..n.value |-> s.of]
             m == n.value
             start == n.next
             deep == Inside(s, depth)
  <2>4. PICK d \in ReadParts(reads, names, start, deep) : r = Reading(d.values, Last(d.ends))
    BY <2>1 DEF ReadMany
  <2>5. List(names) /\ Len(names) = m /\ \A i \in 1..m : names[i] = s.of
    <3>1. names = [i \in 1..m |-> names[i]] /\ \A i \in 1..m : names[i] = s.of
      OBVIOUS
    <3> HIDE DEF names
    <3> QED
      BY <2>3, <3>1, ListOf
  <2> HIDE DEF names, m, start, deep
  <2>6. \A i \in 1..Len(names) : names[i] \in DOMAIN types
    BY <1>2, <1>10, <2>5
  <2>7. start \in 0..Len(b) /\ deep \in 0..(MaxNesting + 1)
    BY <1>3a, <1>10, <2>3 DEF start, deep
  <2>8. /\ Parted(reads, names, start, deep, m, d)
        /\ Last(d.ends) = d.ends[m + 1]
        /\ \A i \in 1..(m + 1) : d.ends[i] \in start..Len(b)
        /\ \A parts : List(parts) /\ Len(parts) = m
                      /\ (\A i \in 1..m : parts[i] = Part(names[i], d.values[i], deep))
                      => Spells(types, parts, k, SubSeq(b, start + 1, Last(d.ends)))
    <3>1. /\ Parted(reads, names, start, deep, Len(names), d)
          /\ Last(d.ends) = d.ends[Len(names) + 1]
          /\ \A i \in 1..(Len(names) + 1) : d.ends[i] \in start..Len(b)
          /\ \A parts : List(parts) /\ Len(parts) = Len(names)
                        /\ (\A i \in 1..Len(names) : parts[i] = Part(names[i], d.values[i], deep))
                        => Spells(types, parts, k, SubSeq(b, start + 1, Last(d.ends)))
      <4>1. List(names) /\ d \in ReadParts(reads, names, start, deep)
        BY <2>4, <2>5
      <4> QED
        BY <4>1, <2>6, <2>7, PartsSpell
    <3> QED
      BY <2>5, <3>1
  <2>9. v = d.values /\ r.next = Last(d.ends) /\ List(v) /\ Len(v) = m
    BY <2>4, <2>8 DEF Reading, Parted
  <2> DEFINE parts == [i \in 1..Len(v) |-> Part(s.of, v[i], deep)]
             u == Bytes(Varint[Len(v)])
  <2>10. w = u \o parts
    BY <1>3, <1>10 DEF Writes, deep
  <2>11. Spells(types, parts, k, SubSeq(b, start + 1, r.next))
    <3>1. m \in Nat /\ parts = [i \in 1..m |-> parts[i]] /\ \A i \in 1..m : parts[i] = Part(s.of, v[i], deep)
      BY <2>3, <2>9 DEF m
    <3> HIDE DEF parts
    <3>2. List(parts) /\ Len(parts) = m
      BY <3>1, ListOf
    <3>3. \A i \in 1..m : parts[i] = Part(names[i], d.values[i], deep)
      BY <2>5, <2>9, <3>1
    <3> QED
      BY <2>8, <2>9, <3>2, <3>3
  <2>12. Spells(types, u, k, SubSeq(b, at + 1, start))
    <3>1. u = Bytes(SubSeq(b, at + 1, start)) /\ SubSeq(b, at + 1, start) \in Seq(Byte)
      BY <2>2, <2>3, <2>9, Slice DEF m, start
    <3> QED
      BY <3>1, SpellsBytes
  <2>13. start \in at..Len(b) /\ r.next \in start..Len(b)
    <3>1. m + 1 \in 1..(m + 1)
      BY <2>3 DEF m
    <3> QED
      BY <2>3, <2>8, <2>9, <3>1 DEF start
  <2> HIDE DEF parts, u
  <2>14. Spells(types, u \o parts, k, SubSeq(b, at + 1, r.next)) /\ r.next \in at..Len(b)
    BY <2>11, <2>12, <2>13, SpellsTwo
  <2> QED
    BY <2>10, <2>14
<1>11. CASE s.form = "nested"
  <2>1. r \in reads[<<s.of, at, Inside(s, depth)>>]
    BY <1>4, <1>11 DEF ReadOne
  <2>2. /\ r.next \in at..Len(b)
        /\ Spells(types, <<Part(s.of, v, Inside(s, depth))>>, k, SubSeq(b, at + 1, r.next))
    BY <1>2, <1>3a, <1>11, <2>1 DEF Sound
  <2>3. w = <<Part(s.of, v, Inside(s, depth))>>
    BY <1>3, <1>11 DEF Writes
  <2> QED
    BY <2>2, <2>3
<1>12. CASE s.form \in {"struct", "checked"}
  <2>1. r \in ReadFields(reads, s, at, depth)
    BY <1>4, <1>12 DEF ReadOne
  <2> DEFINE names == s.fields
             m == Len(names)
  <2>2. PICK d \in ReadParts(reads, names, at, depth) : r = Reading(d.values, Last(d.ends))
    BY <2>1 DEF ReadFields
  <2>3. names \in Seq(DOMAIN types)
    BY <1>2, <1>12
  <2>4. List(names) /\ m \in Nat /\ \A i \in 1..m : names[i] \in DOMAIN types
    BY <2>3 DEF List
  <2> HIDE DEF names, m
  <2>5. /\ Parted(reads, names, at, depth, m, d)
        /\ Last(d.ends) = d.ends[m + 1]
        /\ \A i \in 1..(m + 1) : d.ends[i] \in at..Len(b)
        /\ \A parts : List(parts) /\ Len(parts) = m
                      /\ (\A i \in 1..m : parts[i] = Part(names[i], d.values[i], depth))
                      => Spells(types, parts, k, SubSeq(b, at + 1, Last(d.ends)))
    BY <1>1, <2>2, <2>4, PartsSpell DEF m
  <2>6. v = d.values /\ r.next = Last(d.ends)
    BY <2>2 DEF Reading
  <2> DEFINE parts == [i \in 1..m |-> Part(names[i], v[i], depth)]
  <2>7. w = parts
    BY <1>3, <1>12 DEF Writes, names, m
  <2>8. parts = [i \in 1..m |-> parts[i]] /\ \A i \in 1..m : parts[i] = Part(names[i], d.values[i], depth)
    BY <2>6
  <2> HIDE DEF parts
  <2>9. List(parts) /\ Len(parts) = m
    BY <2>4, <2>8, ListOf
  <2>10. Spells(types, parts, k, SubSeq(b, at + 1, r.next))
    BY <2>5, <2>6, <2>8, <2>9
  <2>11. m + 1 \in 1..(m + 1)
    BY <2>4
  <2> QED
    BY <2>5, <2>6, <2>7, <2>10, <2>11
<1>13. CASE s.form = "tagged"
  <2>1. PICK t \in reads[<<s.tag, at, depth>>] :
           /\ t.value \in DOMAIN s.cases
           /\ r \in {Reading(<<t.value, x.value>>, x.next) :
                        x \in reads[<<s.cases[t.value], t.next, depth>>]}
    BY <1>4, <1>13 DEF ReadOne
  <2>2. PICK x \in reads[<<s.cases[t.value], t.next, depth>>] :
           r = Reading(<<t.value, x.value>>, x.next)
    BY <2>1
  <2>3. v[1] = t.value /\ v[2] = x.value /\ r.next = x.next
    BY <2>2 DEF Reading
  <2>4. s.tag \in DOMAIN types /\ s.cases[t.value] \in DOMAIN types
    BY <1>2, <1>13, <2>1
  <2> DEFINE o == Part(s.tag, t.value, depth)
             q == Part(s.cases[t.value], x.value, depth)
             i == t.next
             j == x.next
  <2>5. i \in at..Len(b) /\ Spells(types, <<o>>, k, SubSeq(b, at + 1, i))
    BY <1>1, <2>1, <2>4 DEF Sound
  <2>6. i \in 0..Len(b)
    BY <1>0, <2>5
  <2>7. j \in i..Len(b) /\ Spells(types, <<q>>, k, SubSeq(b, i + 1, j))
    BY <1>1, <2>2, <2>4, <2>6 DEF Sound
  <2>8. w = <<o, q>>
    BY <1>3, <1>13, <2>3 DEF Writes
  <2> HIDE DEF o, q, i, j
  <2> DEFINE y == <<o>>
             z == <<q>>
  <2>9. y \o z = <<o, q>>
    BY TwoParts
  <2> HIDE DEF y, z
  <2>10. Spells(types, y \o z, k, SubSeq(b, at + 1, j)) /\ j \in at..Len(b)
    BY <2>5, <2>7, SpellsTwo DEF y, z
  <2> QED
    BY <2>3, <2>8, <2>9, <2>10 DEF j
<1> QED
  BY <1>2, <1>5, <1>6, <1>7, <1>8, <1>9, <1>10, <1>11, <1>12, <1>13

\* What a decoder reads, the encoder would have written: any number of calls.
LEMMA ReadsSound ==
    ASSUME NEW types, WellNamed(types), NEW b \in Seq(Byte)
    PROVE  \A k \in 0..Calls : Sound(types, b, Reads(types, b)[k], k)
<1> DEFINE h == Reads(types, b)
           B == {k \in 0..Calls : Sound(types, b, h[k], k)}
<1>0. Calls \in Nat /\ MaxNesting \in Nat
  BY CodecAssumption
<1>1. 0 \in B
  <2>1. \A name \in DOMAIN types, at \in 0..Len(b), depth \in 0..(MaxNesting + 1) :
           h[0][<<name, at, depth>>] = {}
    BY ReadsIs
  <2>2. Sound(types, b, h[0], 0)
    BY <2>1 DEF Sound
  <2> QED
    BY <1>0, <2>2
<1>2. ASSUME NEW k \in 1..Calls, k - 1 \in B
      PROVE  k \in B
  <2>1. k - 1 \in 0..(Calls - 1) /\ k - 1 \in 0..Calls /\ k \in 0..Calls /\ (k - 1) + 1 = k
    BY <1>0
  <2> DEFINE g == h[k - 1]
  <2>2. Sound(types, b, g, k - 1)
    BY <1>2
  <2>3. ASSUME NEW name \in DOMAIN types, NEW at \in 0..Len(b), NEW depth \in 0..(MaxNesting + 1),
               NEW r \in h[k][<<name, at, depth>>]
        PROVE  /\ r.next \in at..Len(b)
               /\ Spells(types, <<Part(name, r.value, depth)>>, k, SubSeq(b, at + 1, r.next))
    <3>1. h[k][<<name, at, depth>>] =
             IF depth > MaxNesting THEN {} ELSE ReadOne(g, types[name], b, at, depth)
      BY ReadsIs
    <3> HIDE DEF g, h
    <3>2. depth \in 0..MaxNesting /\ r \in ReadOne(g, types[name], b, at, depth)
      BY <1>0, <2>3, <3>1
    <3> DEFINE p == Part(name, r.value, depth)
               l == k - 1
               s == SubSeq(b, at + 1, r.next)
    <3>3. r.next \in at..Len(b) /\ Spells(types, Writes(types, p), l, s)
      <4> HIDE DEF l
      <4>1. l \in 0..Calls /\ Sound(types, b, g, l)
        BY <2>1, <2>2 DEF l
      <4> QED
        BY <3>2, <4>1, ReadOneSound
    <3>4. l \in 0..(Calls - 1) /\ l + 1 = k
      BY <2>1
    <3> HIDE DEF l, p, s
    <3>5. Spells(types, <<p>>, l + 1, s)
      BY <3>3, <3>4, SpellsCall
    <3> QED
      BY <3>3, <3>4, <3>5 DEF p, s
  <2>4. Sound(types, b, h[k], k)
    <3> HIDE DEF h
    <3> QED
      BY <2>3 DEF Sound
  <2> QED
    BY <2>1, <2>4
<1> HIDE DEF B
<1>3. \A k \in 0..Calls : k \in B
  BY <1>0, <1>1, <1>2, Climb
<1> QED
  BY <1>3 DEF B

\* What decodes is written as what it was decoded from.
LEMMA DecodedIsWritten ==
    ASSUME NEW types, WellNamed(types), NEW b \in Seq(Byte), NEW name \in DOMAIN types,
           NEW v \in Decoded(types, name, b)
    PROVE  Written(types, name, v) = b
<1>0. /\ Calls \in 0..Calls /\ 0 \in 0..Len(b) /\ 0 \in 0..(MaxNesting + 1)
      /\ Len(b) \in Nat
  BY CodecAssumption
<1>1. PICK r \in Reads(types, b)[Calls][<<name, 0, 0>>] : r.next = Len(b) /\ v = r.value
  BY DEF Decoded
<1>2. Sound(types, b, Reads(types, b)[Calls], Calls)
  BY <1>0, ReadsSound
<1>3. Spells(types, <<Part(name, r.value, 0)>>, Calls, SubSeq(b, 0 + 1, r.next))
  <2> DEFINE h == Reads(types, b)[Calls]
             start == 0
  <2>1. /\ Sound(types, b, h, Calls) /\ r \in h[<<name, start, start>>]
        /\ start \in 0..Len(b) /\ start \in 0..(MaxNesting + 1)
    BY <1>0, <1>1, <1>2
  <2> HIDE DEF h, start
  <2>2. Spells(types, <<Part(name, r.value, start)>>, Calls, SubSeq(b, start + 1, r.next))
    BY <2>1 DEF Sound
  <2> QED
    BY <2>2 DEF start
<1>4. SubSeq(b, 0 + 1, r.next) = b
  <2>1. 0 + 1 = 1
    OBVIOUS
  <2> QED
    BY <1>1, <2>1, SubSeqFull
<1>5. Encoding(types, Part(name, v, 0)) = b
  <2> DEFINE p == Part(name, v, 0)
  <2>1. Spells(types, <<p>>, Calls, b)
    BY <1>1, <1>3, <1>4
  <2> HIDE DEF p
  <2> QED
    BY <2>1, EncodingIs DEF p
<1> QED
  BY <1>5 DEF Written

----------------------------------------------------------------------------
(* Nothing is read in two ways. *)

\* reads gives at most one value for each schema, position and depth.
Once(types, b, reads) ==
    \A name \in DOMAIN types, at \in 0..Len(b), depth \in 0..(MaxNesting + 1) :
       \A r, q \in reads[<<name, at, depth>>] : r = q

\* Bytes are taken in one way.
LEMMA TakenOnce ==
    ASSUME NEW b, NEW at, NEW width, NEW r \in Take(b, at, width), NEW q \in Take(b, at, width)
    PROVE  r = q
BY DEF Take

\* A list of names is read in one way.
LEMMA FieldsOnce ==
    ASSUME NEW types, NEW b \in Seq(Byte), NEW k \in 0..Calls, NEW reads,
           Sound(types, b, reads, k), Once(types, b, reads), NEW names, List(names),
           \A i \in 1..Len(names) : names[i] \in DOMAIN types,
           NEW at \in 0..Len(b), NEW depth \in 0..(MaxNesting + 1),
           NEW d \in ReadParts(reads, names, at, depth), NEW x \in ReadParts(reads, names, at, depth)
    PROVE  d = x
<1>0. at \in Nat /\ Len(b) \in Nat
  OBVIOUS
<1>1. \A i \in 1..(Len(names) + 1) : d.ends[i] \in at..Len(b)
  BY PartsSpell
<1>2. \A i \in 1..(Len(names) + 1) : d.ends[i] \in 0..Len(b)
  BY <1>0, <1>1
<1>3. \A i \in 1..Len(names) : \A e \in 0..Len(b) :
         \A r, q \in reads[<<names[i], e, depth>>] : r = q
  BY DEF Once
<1> DEFINE E == 0..Len(b)
<1>4. /\ \A i \in 1..(Len(names) + 1) : d.ends[i] \in E
      /\ \A i \in 1..Len(names) : \A e \in E : \A r, q \in reads[<<names[i], e, depth>>] : r = q
  BY <1>2, <1>3
<1> HIDE DEF E
<1> QED
  BY <1>4, PartsOnce

\* One call reads in one way.
LEMMA ReadOneOnce ==
    ASSUME NEW types, WellNamed(types), NEW b \in Seq(Byte), NEW k \in 0..Calls, NEW reads,
           Sound(types, b, reads, k), Once(types, b, reads), NEW name \in DOMAIN types,
           NEW at \in 0..Len(b), NEW depth \in 0..MaxNesting,
           NEW r \in ReadOne(reads, types[name], b, at, depth),
           NEW q \in ReadOne(reads, types[name], b, at, depth)
    PROVE  r = q
<1> DEFINE s == types[name]
<1>0. /\ MaxNesting \in Nat /\ Len(b) \in Nat /\ at \in Nat /\ MaxLength \in Nat /\ MaxCount \in Nat
      /\ U64 \in Nat
  BY CodecAssumption
<1>1. depth \in 0..(MaxNesting + 1)
  BY <1>0
<1>2. /\ s.form \in {"varint", "octet", "raw", "text", "option", "many", "nested",
                     "struct", "checked", "tagged"}
      /\ s.form \in {"option", "many", "nested"} => s.of \in DOMAIN types /\ s.nests \in {0, 1}
      /\ s.form \in {"struct", "checked"} => s.fields \in Seq(DOMAIN types)
      /\ s.form = "tagged" =>
            s.tag \in DOMAIN types /\ \A t \in DOMAIN s.cases : s.cases[t] \in DOMAIN types
  BY DEF WellNamed, Naming
<1>3a. s.form \in {"option", "many", "nested"} => Inside(s, depth) \in 0..(MaxNesting + 1)
  <2> HIDE DEF s
  <2> QED
    BY <1>2, InsideIs
<1>4. r \in ReadOne(reads, s, b, at, depth) /\ q \in ReadOne(reads, s, b, at, depth)
  OBVIOUS
<1> HIDE DEF s
<1>5. CASE s.form = "varint"
  <2>1. r \in ReadVarint(b, at) /\ q \in ReadVarint(b, at)
    BY <1>4, <1>5 DEF ReadOne
  <2> QED
    BY <2>1, VarintReadOnce
<1>6. CASE s.form = "octet"
  <2>1. PICK x \in Take(b, at, 1) : r = Reading(x.value[1], x.next)
    BY <1>4, <1>6 DEF ReadOne
  <2>2. PICK y \in Take(b, at, 1) : q = Reading(y.value[1], y.next)
    BY <1>4, <1>6 DEF ReadOne
  <2>3. x = y
    BY <2>1, <2>2, TakenOnce
  <2> QED
    BY <2>1, <2>2, <2>3
<1>7. CASE s.form = "raw"
  <2>1. r \in Take(b, at, s.width) /\ q \in Take(b, at, s.width)
    BY <1>4, <1>7 DEF ReadOne
  <2> QED
    BY <2>1, TakenOnce
<1>8. CASE s.form = "text"
  <2>1. PICK n \in ReadLength(b, at, MaxLength) : r \in Take(b, n.next, n.value)
    BY <1>4, <1>8 DEF ReadOne
  <2>2. PICK m \in ReadLength(b, at, MaxLength) : q \in Take(b, m.next, m.value)
    BY <1>4, <1>8 DEF ReadOne
  <2>3. n \in ReadVarint(b, at) /\ m \in ReadVarint(b, at)
    BY <2>1, <2>2 DEF ReadLength
  <2>4. n = m
    BY <2>3, VarintReadOnce
  <2> QED
    BY <2>1, <2>2, <2>4, TakenOnce
<1>9. CASE s.form = "option"
  <2>1. PICK x \in Take(b, at, 1) :
           r \in IF x.value = <<0>> THEN {Reading(<<>>, x.next)}
                 ELSE IF x.value = <<1>>
                 THEN {Reading(<<y.value>>, y.next) : y \in reads[<<s.of, x.next, Inside(s, depth)>>]}
                 ELSE {}
    BY <1>4, <1>9 DEF ReadOne
  <2>2. PICK z \in Take(b, at, 1) :
           q \in IF z.value = <<0>> THEN {Reading(<<>>, z.next)}
                 ELSE IF z.value = <<1>>
                 THEN {Reading(<<y.value>>, y.next) : y \in reads[<<s.of, z.next, Inside(s, depth)>>]}
                 ELSE {}
    BY <1>4, <1>9 DEF ReadOne
  <2>3. x = z
    BY <2>1, <2>2, TakenOnce
  <2>4. x.next \in at..Len(b)
    BY <2>1, OneTaken
  <2>5. x.next \in 0..Len(b)
    BY <1>0, <2>4
  <2>6. \A y, u \in reads[<<s.of, x.next, Inside(s, depth)>>] : y = u
    BY <1>2, <1>3a, <1>9, <2>5 DEF Once
  <2>7. CASE x.value = <<0>>
    BY <2>1, <2>2, <2>3, <2>7
  <2>8. CASE x.value # <<0>>
    <3>1. x.value = <<1>>
      BY <2>1, <2>8
    <3>2. PICK y \in reads[<<s.of, x.next, Inside(s, depth)>>] : r = Reading(<<y.value>>, y.next)
      BY <2>1, <2>8
    <3>3. PICK u \in reads[<<s.of, x.next, Inside(s, depth)>>] : q = Reading(<<u.value>>, u.next)
      BY <2>2, <2>3, <2>8
    <3>4. y = u
      BY <2>6, <3>2, <3>3
    <3> QED
      BY <3>2, <3>3, <3>4
  <2> QED
    BY <2>7, <2>8
<1>10. CASE s.form = "many"
  <2>1. PICK n \in ReadLength(b, at, MaxCount) : r \in ReadMany(reads, s, b, n.value, n.next, Inside(s, depth))
    BY <1>4, <1>10 DEF ReadOne
  <2>2. PICK l \in ReadLength(b, at, MaxCount) : q \in ReadMany(reads, s, b, l.value, l.next, Inside(s, depth))
    BY <1>4, <1>10 DEF ReadOne
  <2>3. n \in ReadVarint(b, at) /\ l \in ReadVarint(b, at)
    BY <2>1, <2>2 DEF ReadLength
  <2>4. n = l
    BY <2>3, VarintReadOnce
  <2>5. n.value \in 0..(U64 - 1) /\ n.next \in (at + 1)..Len(b)
    BY <1>0, <2>1, LengthRead
  <2> DEFINE names == [i \in 1..n.value |-> s.of]
             m == n.value
             start == n.next
             deep == Inside(s, depth)
  <2>6. m \in Nat /\ start \in 0..Len(b) /\ deep \in 0..(MaxNesting + 1)
    BY <1>0, <1>3a, <1>10, <2>5
  <2>7. PICK d \in ReadParts(reads, names, start, deep) : r = Reading(d.values, Last(d.ends))
    BY <2>1 DEF ReadMany
  <2>8. PICK x \in ReadParts(reads, names, start, deep) : q = Reading(x.values, Last(x.ends))
    BY <2>2, <2>4 DEF ReadMany
  <2>9. names = [i \in 1..m |-> names[i]] /\ \A i \in 1..m : names[i] = s.of
    OBVIOUS
  <2> HIDE DEF names, m, start, deep
  <2>10. List(names) /\ Len(names) = m
    BY <2>6, <2>9, ListOf
  <2>11. \A i \in 1..Len(names) : names[i] \in DOMAIN types
    BY <1>2, <1>10, <2>9, <2>10
  <2>12. d = x
    <3>1. d \in ReadParts(reads, names, start, deep) /\ x \in ReadParts(reads, names, start, deep)
      BY <2>7, <2>8
    <3> QED
      BY <2>6, <2>10, <2>11, <3>1, FieldsOnce
  <2> QED
    BY <2>7, <2>8, <2>12
<1>11. CASE s.form = "nested"
  <2>1. r \in reads[<<s.of, at, Inside(s, depth)>>] /\ q \in reads[<<s.of, at, Inside(s, depth)>>]
    BY <1>4, <1>11 DEF ReadOne
  <2> QED
    BY <1>2, <1>3a, <1>11, <2>1 DEF Once
<1>12. CASE s.form \in {"struct", "checked"}
  <2>1. r \in ReadFields(reads, s, at, depth) /\ q \in ReadFields(reads, s, at, depth)
    BY <1>4, <1>12 DEF ReadOne
  <2> DEFINE names == s.fields
  <2>2. PICK d \in ReadParts(reads, names, at, depth) : r = Reading(d.values, Last(d.ends))
    BY <2>1 DEF ReadFields
  <2>3. PICK x \in ReadParts(reads, names, at, depth) : q = Reading(x.values, Last(x.ends))
    BY <2>1 DEF ReadFields
  <2>4. names \in Seq(DOMAIN types)
    BY <1>2, <1>12
  <2>5. List(names) /\ \A i \in 1..Len(names) : names[i] \in DOMAIN types
    BY <2>4 DEF List
  <2> HIDE DEF names
  <2>6. d = x
    <3>1. d \in ReadParts(reads, names, at, depth) /\ x \in ReadParts(reads, names, at, depth)
      BY <2>2, <2>3
    <3> QED
      BY <1>1, <2>5, <3>1, FieldsOnce
  <2> QED
    BY <2>2, <2>3, <2>6
<1>13. CASE s.form = "tagged"
  <2>1. PICK t \in reads[<<s.tag, at, depth>>] :
           /\ t.value \in DOMAIN s.cases
           /\ r \in {Reading(<<t.value, x.value>>, x.next) :
                        x \in reads[<<s.cases[t.value], t.next, depth>>]}
    BY <1>4, <1>13 DEF ReadOne
  <2>2. PICK u \in reads[<<s.tag, at, depth>>] :
           /\ u.value \in DOMAIN s.cases
           /\ q \in {Reading(<<u.value, x.value>>, x.next) :
                        x \in reads[<<s.cases[u.value], u.next, depth>>]}
    BY <1>4, <1>13 DEF ReadOne
  <2>3. s.tag \in DOMAIN types /\ s.cases[t.value] \in DOMAIN types
    BY <1>2, <1>13, <2>1
  <2>4. t = u
    BY <1>1, <2>1, <2>2, <2>3 DEF Once
  <2>5. t.next \in at..Len(b)
    BY <1>1, <2>1, <2>3 DEF Sound
  <2>6. t.next \in 0..Len(b)
    BY <1>0, <2>5
  <2>7. PICK x \in reads[<<s.cases[t.value], t.next, depth>>] :
           r = Reading(<<t.value, x.value>>, x.next)
    BY <2>1
  <2>8. PICK y \in reads[<<s.cases[t.value], t.next, depth>>] :
           q = Reading(<<t.value, y.value>>, y.next)
    BY <2>2, <2>4
  <2>9. x = y
    BY <1>1, <2>3, <2>6, <2>7, <2>8 DEF Once
  <2> QED
    BY <2>7, <2>8, <2>9
<1> QED
  BY <1>2, <1>5, <1>6, <1>7, <1>8, <1>9, <1>10, <1>11, <1>12, <1>13

\* Any number of calls read in one way.
LEMMA ReadsOnce ==
    ASSUME NEW types, WellNamed(types), NEW b \in Seq(Byte)
    PROVE  \A k \in 0..Calls : Once(types, b, Reads(types, b)[k])
<1> DEFINE h == Reads(types, b)
           B == {k \in 0..Calls : Once(types, b, h[k])}
<1>0. Calls \in Nat /\ MaxNesting \in Nat
  BY CodecAssumption
<1>1. 0 \in B
  <2>1. \A name \in DOMAIN types, at \in 0..Len(b), depth \in 0..(MaxNesting + 1) :
           h[0][<<name, at, depth>>] = {}
    BY ReadsIs
  <2>2. Once(types, b, h[0])
    BY <2>1 DEF Once
  <2> QED
    BY <1>0, <2>2
<1>2. ASSUME NEW k \in 1..Calls, k - 1 \in B
      PROVE  k \in B
  <2> DEFINE g == h[k - 1]
             l == k - 1
  <2>1. l \in 0..Calls /\ k \in 0..Calls
    BY <1>0
  <2>2. Once(types, b, g) /\ Sound(types, b, g, l)
    BY <1>2, <2>1, ReadsSound
  <2>3. ASSUME NEW name \in DOMAIN types, NEW at \in 0..Len(b), NEW depth \in 0..(MaxNesting + 1),
               NEW r \in h[k][<<name, at, depth>>], NEW q \in h[k][<<name, at, depth>>]
        PROVE  r = q
    <3>1. h[k][<<name, at, depth>>] =
             IF depth > MaxNesting THEN {} ELSE ReadOne(g, types[name], b, at, depth)
      BY ReadsIs
    <3> HIDE DEF g, h, l
    <3>2. /\ depth \in 0..MaxNesting /\ r \in ReadOne(g, types[name], b, at, depth)
          /\ q \in ReadOne(g, types[name], b, at, depth)
      BY <1>0, <2>3, <3>1
    <3> QED
      BY <2>1, <2>2, <3>2, ReadOneOnce
  <2>4. Once(types, b, h[k])
    <3> HIDE DEF h
    <3> QED
      BY <2>3 DEF Once
  <2> QED
    BY <2>1, <2>4
<1> HIDE DEF B
<1>3. \A k \in 0..Calls : k \in B
  BY <1>0, <1>1, <1>2, Climb
<1> QED
  BY <1>3 DEF B

----------------------------------------------------------------------------
(* What is written is read. *)

\* The string s stands in b after its first `at` bytes.
Stands(b, at, s) ==
    /\ b \in Seq(Byte) /\ s \in Seq(Byte)
    /\ at \in 0..Len(b) /\ at + Len(s) \in at..Len(b)
    /\ \A m \in 1..Len(s) : b[at + m] = s[m]

\* Then it is the slice that starts there.
LEMMA StandsSlice ==
    ASSUME NEW b, NEW at, NEW s, Stands(b, at, s)
    PROVE  SubSeq(b, at + 1, at + Len(s)) = s
<1> DEFINE j == at + Len(s)
           t == SubSeq(b, at + 1, j)
<1>0. /\ b \in Seq(Byte) /\ s \in Seq(Byte) /\ at \in 0..Len(b) /\ j \in at..Len(b)
      /\ Len(s) \in Nat /\ j - at = Len(s) /\ \A m \in 1..Len(s) : b[at + m] = s[m]
  <2>1. b \in Seq(Byte) /\ s \in Seq(Byte) /\ at \in 0..Len(b) /\ j \in at..Len(b)
    BY DEF Stands
  <2>2. \A m \in 1..Len(s) : b[at + m] = s[m]
    BY DEF Stands
  <2>3. Len(s) \in Nat /\ Len(b) \in Nat
    BY <2>1
  <2> QED
    BY <2>1, <2>2, <2>3
<1> HIDE DEF j
<1>1. t \in Seq(Byte) /\ Len(t) = j - at /\ \A m \in 1..(j - at) : t[m] = b[at + m]
  BY <1>0, Slice
<1> HIDE DEF t
<1>2. \A m \in 1..Len(s) : t[m] = s[m]
  BY <1>0, <1>1
<1>3. t = s
  BY <1>0, <1>1, <1>2, SeqEqual
<1> QED
  BY <1>3 DEF t, j

\* Two strings end to end stand one after the other.
LEMMA StandsJoin ==
    ASSUME NEW b, NEW at, NEW s \in Seq(Byte), NEW t \in Seq(Byte), Stands(b, at, s \o t)
    PROVE  /\ Stands(b, at, s) /\ Stands(b, at + Len(s), t)
           /\ at + Len(s \o t) = (at + Len(s)) + Len(t)
<1> DEFINE u == s \o t
           n == Len(s)
           l == Len(t)
<1>1. n \in Nat /\ l \in Nat /\ List(s) /\ List(t)
  BY DEF List
<1>2. Len(u) = n + l /\ (\A i \in 1..n : u[i] = s[i]) /\ (\A i \in 1..l : u[n + i] = t[i])
  BY <1>1, ListConcat
<1>3. /\ b \in Seq(Byte) /\ at \in 0..Len(b) /\ at + (n + l) \in at..Len(b)
      /\ \A m \in 1..(n + l) : b[at + m] = u[m]
  BY <1>2 DEF Stands
<1>4. Len(b) \in Nat
  BY <1>3
<1> HIDE DEF u, n, l
<1>5. Stands(b, at, s)
  <2>1. at + n \in at..Len(b)
    BY <1>1, <1>3, <1>4
  <2>2. ASSUME NEW m \in 1..n
        PROVE  b[at + m] = s[m]
    <3>1. m \in 1..(n + l)
      BY <1>1
    <3> QED
      BY <1>2, <1>3, <3>1
  <2> QED
    BY <1>3, <2>1, <2>2 DEF Stands, n
<1>6. Stands(b, at + n, t)
  <2>1. at + n \in 0..Len(b) /\ (at + n) + l \in (at + n)..Len(b)
    BY <1>1, <1>3, <1>4
  <2>2. ASSUME NEW m \in 1..l
        PROVE  b[(at + n) + m] = t[m]
    <3>1. n + m \in 1..(n + l) /\ (at + n) + m = at + (n + m)
      BY <1>1, <1>3
    <3>2. b[at + (n + m)] = u[n + m] /\ u[n + m] = t[m]
      BY <1>2, <1>3, <3>1
    <3> QED
      BY <3>1, <3>2
  <2> QED
    BY <1>3, <2>1, <2>2 DEF Stands, l
<1>7. at + (n + l) = (at + n) + l
  BY <1>1, <1>3
<1> QED
  BY <1>2, <1>5, <1>6, <1>7 DEF u, n, l

\* A string stands in itself.
LEMMA StandsItself ==
    ASSUME NEW s \in Seq(Byte)
    PROVE  Stands(s, 0, s)
<1>1. Len(s) \in Nat
  OBVIOUS
<1>2. 0 \in 0..Len(s) /\ 0 + Len(s) \in 0..Len(s) /\ \A m \in 1..Len(s) : s[0 + m] = s[m]
  BY <1>1
<1> QED
  BY <1>2 DEF Stands

\* e lists where each of the first n strings ends in t.
Ends(e, strings, n, t) ==
    /\ e \in [1..(n + 1) -> Nat] /\ e[1] = 0 /\ e[n + 1] = Len(t)
    /\ \A i \in 1..n : e[i + 1] = e[i] + Len(strings[i])
    /\ \A b, at : Stands(b, at, t) => \A i \in 1..n : Stands(b, at + e[i], strings[i])

\* Parts that spell one string each spell the strings end to end.
LEMMA PartsWritten ==
    ASSUME NEW types, NEW parts, List(parts), NEW k \in 0..Calls, NEW strings,
           \A i \in 1..Len(parts) : Spells(types, <<parts[i]>>, k, strings[i]) /\ strings[i] # <<>>
    PROVE  \E t, e : /\ Spells(types, parts, k, t) /\ Len(t) >= Len(parts)
                     /\ Ends(e, strings, Len(parts), t)
<1> DEFINE n == Len(parts)
           B == {m \in 0..n : \E t, e : /\ Spells(types, SubSeq(parts, 1, m), k, t)
                                        /\ Len(t) >= m /\ Ends(e, strings, m, t)}
<1>0. n \in Nat
  BY ListIs
<1>1. 0 \in B
  <2>1. 0 \in 0..n
    BY <1>0
  <2>2. SubSeq(parts, 1, 0) = <<>>
    BY ListGrows
  <2> DEFINE t == <<>>
             e == [i \in 1..(0 + 1) |-> 0]
  <2>3. t \in Seq(Byte) /\ Len(t) = 0
    OBVIOUS
  <2>4. Bytes(t) = <<>>
    <3>1. List(Bytes(t)) /\ Len(Bytes(t)) = 0
      BY <2>3, BytesAre
    <3> QED
      BY <3>1, ListIs
  <2>5. Spells(types, <<>>, k, t)
    <3> HIDE DEF t
    <3> QED
      BY <2>3, <2>4, SpellsBytes
  <2>6. Ends(e, strings, 0, t)
    <3>1. e \in [1..(0 + 1) -> Nat] /\ e[1] = 0 /\ e[0 + 1] = 0
      OBVIOUS
    <3>2. \A i \in 1..0 : FALSE
      OBVIOUS
    <3> HIDE DEF e, t
    <3> QED
      BY <2>3, <3>1, <3>2 DEF Ends
  <2> HIDE DEF t, e
  <2>7. Spells(types, SubSeq(parts, 1, 0), k, t) /\ Len(t) >= 0
    <3> DEFINE z == SubSeq(parts, 1, 0)
    <3>1. z = <<>>
      BY <2>2
    <3> HIDE DEF z
    <3>2. Spells(types, z, k, t)
      BY <2>5, <3>1
    <3>3. Len(t) >= 0
      BY <2>3
    <3> QED
      BY <3>2, <3>3 DEF z
  <2> QED
    BY <2>1, <2>6, <2>7
<1>2. ASSUME NEW m \in 1..n, m - 1 \in B
      PROVE  m \in B
  <2>1. m \in 0..n /\ m \in Nat /\ (m - 1) + 1 = m /\ m >= 1
    BY <1>0
  <2>2. PICK u, f : /\ Spells(types, SubSeq(parts, 1, m - 1), k, u)
                    /\ Len(u) >= m - 1 /\ Ends(f, strings, m - 1, u)
    BY <1>2
  <2> DEFINE s == strings[m]
             p == parts[m]
             x == SubSeq(parts, 1, m - 1)
             o == <<p>>
             t == u \o s
             e == [i \in 1..(m + 1) |-> IF i = m + 1 THEN Len(t) ELSE f[i]]
  <2>3. Spells(types, o, k, s) /\ s # <<>>
    OBVIOUS
  <2>4. u \in Seq(Byte) /\ s \in Seq(Byte) /\ List(u) /\ List(s)
    BY <2>2, <2>3 DEF Spells, List
  <2>5. SubSeq(parts, 1, m) = x \o o
    BY ListGrows
  <2> HIDE DEF x, o, p
  <2>6. Spells(types, x \o o, k, t)
    BY <2>2, <2>3, SpellsConcat DEF x
  <2>7. Len(t) = Len(u) + Len(s) /\ Len(u) \in Nat /\ Len(s) \in Nat \ {0}
    <3>1. Len(s) \in Nat /\ Len(s) # 0 /\ Len(u) \in Nat
      BY <2>3, <2>4, ListIs
    <3>2. Len(t) = Len(u) + Len(s)
      BY <2>4, ListConcat
    <3> QED
      BY <3>1, <3>2
  <2>8. Len(t) >= m
    BY <2>1, <2>2, <2>7
  <2>9. /\ f \in [1..m -> Nat] /\ f[1] = 0 /\ f[m] = Len(u)
        /\ \A i \in 1..(m - 1) : f[i + 1] = f[i] + Len(strings[i])
        /\ \A b, at : Stands(b, at, u) => \A i \in 1..(m - 1) : Stands(b, at + f[i], strings[i])
    BY <2>1, <2>2 DEF Ends
  <2>10. /\ e \in [1..(m + 1) -> Nat] /\ e[m + 1] = Len(t) /\ \A i \in 1..m : e[i] = f[i]
    <3>1. Len(t) \in Nat
      BY <2>7
    <3>2. \A i \in 1..(m + 1) : i # m + 1 => i \in 1..m
      BY <2>1
    <3>3. \A i \in 1..m : i \in 1..(m + 1) /\ i # m + 1
      BY <2>1
    <3>4. m + 1 \in 1..(m + 1)
      BY <2>1
    <3> HIDE DEF t
    <3> QED
      BY <2>9, <3>1, <3>2, <3>3, <3>4
  <2>11. ASSUME NEW b, NEW at, Stands(b, at, t), NEW i \in 1..m
         PROVE  Stands(b, at + e[i], strings[i])
    <3>1. Stands(b, at, u) /\ Stands(b, at + Len(u), s)
      <4> HIDE DEF s
      <4> QED
        BY <2>4, <2>11, StandsJoin
    <3>2. CASE i = m
      BY <2>9, <2>10, <3>1, <3>2
    <3>3. CASE i # m
      <4>1. i \in 1..(m - 1)
        BY <2>1, <3>3
      <4> QED
        BY <2>9, <2>10, <3>1, <4>1
    <3> QED
      BY <3>2, <3>3
  <2>12. ASSUME NEW i \in 1..m
         PROVE  e[i + 1] = e[i] + Len(strings[i])
    <3>1. CASE i = m
      <4>1. m \in 1..m
        BY <2>1
      <4>2. e[m] = Len(u) /\ e[m + 1] = Len(u) + Len(s)
        BY <2>7, <2>9, <2>10, <4>1
      <4> QED
        BY <3>1, <4>2
    <3>2. CASE i # m
      <4>1. i \in 1..(m - 1) /\ i + 1 \in 1..m
        BY <2>1, <3>2
      <4> QED
        BY <2>9, <2>10, <4>1
    <3> QED
      BY <3>1, <3>2
  <2>13. e[1] = 0
    BY <2>1, <2>9, <2>10
  <2> HIDE DEF e, t
  <2>14. Ends(e, strings, m, t)
    BY <2>10, <2>11, <2>12, <2>13 DEF Ends
  <2> QED
    BY <2>1, <2>5, <2>6, <2>8, <2>14
<1>3. \A m \in 0..n : m \in B
  <2> HIDE DEF B, n
  <2> QED
    BY <1>0, <1>1, <1>2, Climb
<1>4. n \in B
  BY <1>0, <1>3
<1>5. SubSeq(parts, 1, n) = parts
  BY ListGrows
<1> QED
  BY <1>4, <1>5

\* The part p is written as s, k calls deep, and s is read as its value.
CompleteAs(types, p, k, s) ==
    /\ Spells(types, <<p>>, k, s) /\ s # <<>>
    /\ p.name # "byte" =>
          \A b, at : Stands(b, at, s) =>
             Reading(p.value, at + Len(s)) \in Reads(types, b)[k][<<p.name, at, p.depth>>]
Complete(types, p, k) == \E s : CompleteAs(types, p, k, s)

\* The parts are written as t, and t is read as the values v of those names,
\* each in the place of its own encoding.
CompleteParts(types, parts, k, names, depth, v, t) ==
    /\ Spells(types, parts, k, t) /\ Len(t) >= Len(names)
    /\ \A b, at : Stands(b, at, t) =>
          \E d \in ReadParts(Reads(types, b)[k], names, at, depth) :
             /\ d.values = v /\ Last(d.ends) = at + Len(t)
             /\ \A i \in 1..Len(names) :
                   SubSeq(b, d.ends[i] + 1, d.ends[i + 1]) = Encoding(types, parts[i])

\* What the parts of one call are written as is read one after another.
LEMMA PartsComplete ==
    ASSUME NEW types, "byte" \notin DOMAIN types, NEW k \in 0..Calls, NEW names, List(names),
           \A i \in 1..Len(names) : names[i] \in DOMAIN types, NEW depth, NEW v, List(v),
           Len(v) = Len(names),
           \A i \in 1..Len(names) : Complete(types, Part(names[i], v[i], depth), k),
           NEW parts, List(parts), Len(parts) = Len(names),
           \A i \in 1..Len(names) : parts[i] = Part(names[i], v[i], depth)
    PROVE  \E t : CompleteParts(types, parts, k, names, depth, v, t)
<1> DEFINE n == Len(names)
           strings == [i \in 1..n |-> CHOOSE s : CompleteAs(types, parts[i], k, s)]
<1>0. n \in Nat /\ Calls \in Nat /\ Calls \in k..Calls
  BY ListIs, CodecAssumption
<1>1. ASSUME NEW i \in 1..n
      PROVE  CompleteAs(types, parts[i], k, strings[i])
  <2>1. \E s : CompleteAs(types, parts[i], k, s)
    BY DEF Complete
  <2>2. CompleteAs(types, parts[i], k, CHOOSE s : CompleteAs(types, parts[i], k, s))
    BY <2>1
  <2> QED
    BY <2>2
<1> HIDE DEF strings
<1>2. \A i \in 1..Len(parts) : Spells(types, <<parts[i]>>, k, strings[i]) /\ strings[i] # <<>>
  BY <1>1 DEF CompleteAs
<1>3. PICK t, e : Spells(types, parts, k, t) /\ Len(t) >= Len(parts) /\ Ends(e, strings, Len(parts), t)
  BY <1>2, PartsWritten
<1>4. /\ e \in [1..(n + 1) -> Nat] /\ e[1] = 0 /\ e[n + 1] = Len(t)
      /\ \A i \in 1..n : e[i + 1] = e[i] + Len(strings[i])
      /\ \A b, at : Stands(b, at, t) => \A i \in 1..n : Stands(b, at + e[i], strings[i])
  BY <1>3 DEF Ends
<1>5. ASSUME NEW b, NEW at, Stands(b, at, t)
      PROVE  \E d \in ReadParts(Reads(types, b)[k], names, at, depth) :
                /\ d.values = v /\ Last(d.ends) = at + Len(t)
                /\ \A i \in 1..n : SubSeq(b, d.ends[i] + 1, d.ends[i + 1]) = Encoding(types, parts[i])
  <2> DEFINE reads == Reads(types, b)[k]
             es == [i \in 1..(n + 1) |-> at + e[i]]
             d == [values |-> v, ends |-> es]
  <2>1. at \in Nat
    <3>1. b \in Seq(Byte) /\ at \in 0..Len(b)
      BY <1>5 DEF Stands
    <3> QED
      BY <3>1
  <2>2. List(es) /\ Len(es) = n + 1 /\ \A i \in 1..(n + 1) : es[i] = at + e[i]
    <3>1. n + 1 \in Nat /\ es = [i \in 1..(n + 1) |-> es[i]] /\ \A i \in 1..(n + 1) : es[i] = at + e[i]
      BY <1>0
    <3> DEFINE l == n + 1
    <3> HIDE DEF es, l
    <3>2. List(es) /\ Len(es) = l
      BY <3>1, ListOf DEF l
    <3> QED
      BY <3>1, <3>2 DEF l
  <2>3. d.values = v /\ d.ends = es /\ d = [values |-> d.values, ends |-> d.ends]
    OBVIOUS
  <2> HIDE DEF es, d
  <2>4. ASSUME NEW i \in 1..n
        PROVE  /\ SubSeq(b, es[i] + 1, es[i + 1]) = Encoding(types, parts[i])
               /\ \E r \in reads[<<names[i], es[i], depth>>] : v[i] = r.value /\ es[i + 1] = r.next
    <3> DEFINE s == strings[i]
               p == parts[i]
    <3>1. i \in 1..(n + 1) /\ i + 1 \in 1..(n + 1)
      BY <1>0
    <3>2. CompleteAs(types, p, k, s) /\ Stands(b, es[i], s) /\ e[i] \in Nat
          /\ es[i + 1] = at + (e[i] + Len(s))
      <4>1. CompleteAs(types, p, k, s)
        BY <1>1, <3>1
      <4>2. e[i] \in Nat /\ e[i + 1] = e[i] + Len(s)
        BY <1>4, <3>1
      <4>3. es[i] = at + e[i] /\ es[i + 1] = at + e[i + 1]
        BY <2>2, <3>1
      <4>4. Stands(b, at + e[i], s)
        BY <1>4, <1>5
      <4> QED
        BY <4>1, <4>2, <4>3, <4>4
    <3>3. es[i + 1] = es[i] + Len(s)
      <4>1. s \in Seq(Byte)
        BY <3>2 DEF Stands
      <4>2. Len(s) \in Nat
        BY <4>1
      <4> QED
        BY <2>1, <2>2, <3>1, <3>2, <4>2
    <3>4. p.name = names[i] /\ p.value = v[i] /\ p.depth = depth /\ p.name # "byte"
      <4>1. p = Part(names[i], v[i], depth) /\ names[i] \in DOMAIN types
        OBVIOUS
      <4> QED
        BY <4>1 DEF Part
    <3> DEFINE j == es[i]
    <3> HIDE DEF s, p, j
    <3>5. Reading(p.value, j + Len(s)) \in reads[<<p.name, j, p.depth>>]
      BY <3>2, <3>4 DEF CompleteAs, j
    <3>6. SubSeq(b, j + 1, j + Len(s)) = s
      BY <3>2, StandsSlice DEF j
    <3>7. Encoding(types, p) = s
      <4>1. Spells(types, <<p>>, k, s)
        BY <3>2 DEF CompleteAs
      <4>2. Spells(types, <<p>>, Calls, s)
        BY <1>0, <4>1, SpellsMore
      <4> QED
        BY <4>2, EncodingIs
    <3>8. Reading(p.value, j + Len(s)).value = v[i] /\ Reading(p.value, j + Len(s)).next = es[i + 1]
      BY <3>3, <3>4 DEF Reading, j
    <3>9. SubSeq(b, es[i] + 1, es[i + 1]) = Encoding(types, p)
      BY <3>3, <3>6, <3>7 DEF j
    <3>10. reads[<<p.name, j, p.depth>>] = reads[<<names[i], es[i], depth>>]
      BY <3>4 DEF j
    <3> QED
      BY <3>5, <3>8, <3>9, <3>10 DEF p
  <2>5. es[1] = at
    BY <1>0, <1>4, <2>1, <2>2
  <2>6. Parted(reads, names, at, depth, n, d)
    <3> HIDE DEF reads
    <3> QED
      BY <2>2, <2>3, <2>4, <2>5 DEF Parted
  <2>7. d \in ReadParts(reads, names, at, depth)
    <3> HIDE DEF reads
    <3> QED
      BY <2>6, PartsAreRead
  <2>8. Last(d.ends) = at + Len(t)
    <3>1. n + 1 \in 1..(n + 1)
      BY <1>0
    <3> QED
      BY <1>4, <2>2, <2>3, <3>1 DEF Last
  <2> QED
    BY <2>3, <2>4, <2>7, <2>8
<1> QED
  BY <1>3, <1>5 DEF CompleteParts

\* A string that stands in b is taken from it.
LEMMA StandsTake ==
    ASSUME NEW b, NEW at, NEW s, Stands(b, at, s), NEW n, n = Len(s)
    PROVE  Reading(s, at + n) \in Take(b, at, n)
<1>1. SubSeq(b, at + 1, at + Len(s)) = s
  BY StandsSlice
<1>2. at + n <= Len(b)
  <2>1. b \in Seq(Byte) /\ at + Len(s) \in at..Len(b)
    BY DEF Stands
  <2> QED
    BY <2>1
<1> QED
  BY <1>1, <1>2 DEF Take

\* A length n stands at a place of b within its limit, and the string t after it.
Counted(b, at, t, n, limit) ==
    /\ Reading(n, at + Len(Varint[n])) \in ReadLength(b, at, limit)
    /\ Stands(b, at + Len(Varint[n]), t)
    /\ at + Len(Varint[n] \o t) = (at + Len(Varint[n])) + Len(t)

\* A length and what it counts.
LEMMA StandsLength ==
    ASSUME NEW b, NEW at, NEW t \in Seq(Byte), NEW n \in 0..(U64 - 1), NEW limit \in Nat,
           n <= limit, n <= Len(t), Stands(b, at, Varint[n] \o t)
    PROVE  Counted(b, at, t, n, limit)
<1> DEFINE u == Varint[n]
           r == Reading(n, at + Len(u))
<1>1. u \in Seq(Byte)
  BY VarintIsCanonical DEF Canonical
<1> HIDE DEF u
<1>2. /\ Stands(b, at, u) /\ Stands(b, at + Len(u), t)
      /\ at + Len(u \o t) = (at + Len(u)) + Len(t)
  <2>1. Stands(b, at, u \o t)
    BY DEF u
  <2> QED
    BY <1>1, <2>1, StandsJoin
<1>3. /\ b \in Seq(Byte) /\ at \in 0..Len(b) /\ at + Len(u) \in at..Len(b)
      /\ (at + Len(u)) + Len(t) \in (at + Len(u))..Len(b)
  BY <1>2 DEF Stands
<1>4. SubSeq(b, at + 1, at + Len(u)) = u
  BY <1>2, StandsSlice
<1>5. r \in ReadVarint(b, at)
  <2>1. at + Len(Varint[n]) <= Len(b) /\ SubSeq(b, at + 1, at + Len(Varint[n])) = Varint[n]
    BY <1>3, <1>4 DEF u
  <2>2. Reading(n, at + Len(Varint[n])) \in ReadVarint(b, at)
    BY <1>3, <2>1, VarintIsRead
  <2> QED
    BY <2>2 DEF u
<1>6. r.value = n /\ r.next = at + Len(u)
  BY DEF Reading
<1>7. n <= Len(b) - r.next
  <2>1. Len(t) \in Nat /\ Len(b) \in Nat /\ Len(u) \in Nat /\ n \in Nat /\ at \in Nat
    BY <1>1, <1>3
  <2> DEFINE l == Len(t)
             j == at + Len(u)
  <2>2. l \in Nat /\ j \in Nat /\ j + l <= Len(b) /\ n <= l
    BY <1>3, <2>1
  <2> HIDE DEF l, j
  <2>3. n <= Len(b) - j
    BY <2>1, <2>2
  <2> QED
    BY <1>6, <2>3 DEF j
<1>8. r \in ReadLength(b, at, limit)
  BY <1>5, <1>6, <1>7 DEF ReadLength
<1> QED
  BY <1>2, <1>8, Zenon DEF u, Counted

\* The parts a call leaves to others.
LEMMA InRange ==
    ASSUME NEW s, List(s), NEW i \in 1..Len(s)
    PROVE  s[i] \in Range(s)
<1>1. DOMAIN s = 1..Len(s)
  BY ListIs
<1> QED
  BY <1>1 DEF Range

\* A value of its type is written as what is read as it: one call.
LEMMA ReadOneComplete ==
    ASSUME NEW types, WellNamed(types), NEW p, Admits(types, p), NEW k \in 0..Calls,
           \A q \in Range(Writes(types, p)) : Complete(types, q, k)
    PROVE  \E s : /\ Spells(types, Writes(types, p), k, s) /\ s # <<>>
                  /\ \A b, at : Stands(b, at, s) =>
                        Reading(p.value, at + Len(s))
                           \in ReadOne(Reads(types, b)[k], types[p.name], b, at, p.depth)
<1> DEFINE f == types[p.name]
           v == p.value
           w == Writes(types, p)
           depth == p.depth
           Goal == \E s : /\ Spells(types, w, k, s) /\ s # <<>>
                          /\ \A b, at : Stands(b, at, s) =>
                                Reading(v, at + Len(s)) \in ReadOne(Reads(types, b)[k], f, b, at, depth)
<1>0. /\ MaxNesting \in Nat /\ MaxLength \in Nat /\ MaxCount \in Nat /\ U64 \in Nat
      /\ MaxLength < U64 /\ MaxCount < U64
  BY CodecAssumption
<1>1. p.name \in DOMAIN types /\ depth \in 0..MaxNesting /\ "byte" \notin DOMAIN types
  BY DEF Admits, WellNamed, Naming
<1>2. /\ f.form \in {"varint", "octet", "raw", "text", "option", "many", "nested",
                     "struct", "checked", "tagged"}
      /\ f.form = "raw" => f.width \in Nat \ {0}
      /\ f.form \in {"option", "many", "nested"} => f.of \in DOMAIN types /\ f.nests \in {0, 1}
      /\ f.form \in {"struct", "checked"} => f.fields \in Seq(DOMAIN types) /\ f.fields # <<>>
      /\ f.form = "tagged" =>
            f.tag \in DOMAIN types /\ \A t \in DOMAIN f.cases : f.cases[t] \in DOMAIN types
  BY <1>1 DEF WellNamed, Naming
<1>3. f = types[p.name] /\ v = p.value /\ depth = p.depth /\ w = Writes(types, p) /\ p.name # "byte"
  BY <1>1
<1>4. \A q \in Range(w) : Complete(types, q, k)
  OBVIOUS
<1> HIDE DEF f, v, w, depth
<1> SUFFICES Goal
  BY DEF f, v, w, depth
<1>20. ASSUME NEW s \in Seq(Byte), s # <<>>, w = Bytes(s),
              \A b, at : Stands(b, at, s) =>
                 Reading(v, at + Len(s)) \in ReadOne(Reads(types, b)[k], f, b, at, depth)
       PROVE  Goal
  <2>1. Spells(types, w, k, s)
    BY <1>20, SpellsBytes
  <2> QED
    BY <1>20, <2>1
<1>5. CASE f.form = "varint"
  <2>1. v \in f.legal /\ v \in 0..(U64 - 1)
    BY <1>3, <1>5 DEF Admits
  <2> DEFINE s == Varint[v]
  <2>2. s \in Seq(Byte) /\ s # <<>>
    BY <2>1, VarintIsCanonical DEF Canonical
  <2>3. w = Bytes(s)
    BY <1>3, <1>5 DEF Writes
  <2>4. ASSUME NEW b, NEW at, Stands(b, at, s)
        PROVE  Reading(v, at + Len(s)) \in ReadOne(Reads(types, b)[k], f, b, at, depth)
    <3>1. SubSeq(b, at + 1, at + Len(s)) = s
      BY <2>4, StandsSlice
    <3>2. b \in Seq(Byte) /\ at \in 0..Len(b) /\ at + Len(s) <= Len(b)
      BY <2>4 DEF Stands
    <3>3. Reading(v, at + Len(s)) \in ReadVarint(b, at)
      BY <2>1, <3>1, <3>2, VarintIsRead
    <3>4. Reading(v, at + Len(s)).value = v
      BY DEF Reading
    <3> HIDE DEF s
    <3> QED
      BY <1>5, <2>1, <3>3, <3>4 DEF ReadOne
  <2> HIDE DEF s, Goal
  <2> QED
    BY <1>20, <2>2, <2>3, <2>4
<1>6. CASE f.form = "octet"
  <2>1. v \in f.legal /\ v \in Byte
    BY <1>3, <1>6 DEF Admits
  <2> DEFINE s == <<v>>
  <2>2. s \in Seq(Byte) /\ s # <<>> /\ Len(s) = 1 /\ s[1] = v
    BY <2>1
  <2>3. w = Bytes(s)
    BY <1>3, <1>6 DEF Writes
  <2> HIDE DEF s
  <2>4. ASSUME NEW b, NEW at, Stands(b, at, s)
        PROVE  Reading(v, at + Len(s)) \in ReadOne(Reads(types, b)[k], f, b, at, depth)
    <3> DEFINE x == Reading(s, at + 1)
    <3>1. x \in Take(b, at, 1)
      <4>1. 1 = Len(s)
        BY <2>2
      <4> QED
        BY <2>4, <4>1, StandsTake
    <3>2. x.value[1] = v /\ x.next = at + Len(s)
      BY <2>2 DEF Reading
    <3> HIDE DEF x
    <3> QED
      BY <1>6, <2>1, <3>1, <3>2 DEF ReadOne
  <2> HIDE DEF Goal
  <2> QED
    BY <1>20, <2>2, <2>3, <2>4
<1>7. CASE f.form = "raw"
  <2>1. v \in [1..f.width -> Byte] /\ f.width \in Nat \ {0}
    BY <1>2, <1>3, <1>7 DEF Admits
  <2>2. v \in Seq(Byte) /\ Len(v) = f.width /\ v # <<>>
    <3> DEFINE n == f.width
    <3>1. n \in Nat \ {0} /\ v \in [1..n -> Byte]
      BY <2>1
    <3> HIDE DEF n
    <3>2. v \in Seq(Byte) /\ Len(v) = n
      BY <3>1
    <3>3. v # <<>>
      BY <3>1, <3>2
    <3> QED
      BY <3>2, <3>3 DEF n
  <2>3. w = Bytes(v)
    BY <1>3, <1>7 DEF Writes
  <2>4. ASSUME NEW b, NEW at, Stands(b, at, v)
        PROVE  Reading(v, at + Len(v)) \in ReadOne(Reads(types, b)[k], f, b, at, depth)
    <3> DEFINE n == f.width
    <3>1. n = Len(v)
      BY <2>2
    <3> HIDE DEF n
    <3>2. Reading(v, at + n) \in Take(b, at, n)
      BY <2>4, <3>1, StandsTake
    <3> QED
      BY <1>7, <3>1, <3>2 DEF ReadOne, n
  <2> HIDE DEF Goal
  <2> QED
    BY <1>20, <2>2, <2>3, <2>4
<1>8. CASE f.form = "text"
  <2>1. v \in f.legal /\ v \in Seq(Byte) /\ Len(v) <= MaxLength
    BY <1>3, <1>8 DEF Admits
  <2>2. Len(v) \in 0..(U64 - 1)
    <3>1. Len(v) \in Nat
      BY <2>1
    <3> QED
      BY <1>0, <2>1, <3>1
  <2> DEFINE u == Varint[Len(v)]
             s == u \o v
  <2>3. u \in Seq(Byte) /\ u # <<>>
    BY <2>2, VarintIsCanonical DEF Canonical
  <2>4. w = Bytes(s)
    BY <1>3, <1>8 DEF Writes
  <2>5. s \in Seq(Byte) /\ s # <<>>
    <3>1. s \in Seq(Byte) /\ Len(s) = Len(u) + Len(v) /\ Len(u) # 0 /\ Len(u) \in Nat /\ Len(v) \in Nat
      <4> HIDE DEF u
      <4>1. s \in Seq(Byte) /\ Len(s) = Len(u) + Len(v)
        BY <2>1, <2>3, ConcatProperties
      <4>2. Len(u) \in Nat /\ Len(u) # 0 /\ Len(v) \in Nat
        BY <2>1, <2>3
      <4> QED
        BY <4>1, <4>2
    <3> HIDE DEF s, u
    <3>2. s \in Seq(Byte) /\ Len(s) # 0
      BY <3>1
    <3> QED
      BY <3>2, EmptySeq
  <2>6. ASSUME NEW b, NEW at, Stands(b, at, s)
        PROVE  Reading(v, at + Len(s)) \in ReadOne(Reads(types, b)[k], f, b, at, depth)
    <3> DEFINE n == Len(v)
               r == Reading(n, at + Len(Varint[n]))
    <3>1. n \in 0..(U64 - 1) /\ n <= MaxLength /\ n <= Len(v) /\ Stands(b, at, Varint[n] \o v)
      BY <2>1, <2>2, <2>6
    <3>2. /\ r \in ReadLength(b, at, MaxLength) /\ Stands(b, at + Len(Varint[n]), v)
          /\ at + Len(Varint[n] \o v) = (at + Len(Varint[n])) + Len(v)
      <4> HIDE DEF n
      <4>1. v \in Seq(Byte) /\ MaxLength \in Nat
        BY <1>0, <2>1
      <4>2. Counted(b, at, v, n, MaxLength)
        BY <3>1, <4>1, StandsLength, Zenon
      <4> QED
        BY <4>2, Zenon DEF Counted
    <3>3. r.next = at + Len(u) /\ r.value = n
      BY DEF Reading
    <3> DEFINE j == r.next
    <3>4. Stands(b, j, v) /\ at + Len(s) = j + n
      BY <3>2, <3>3
    <3> HIDE DEF r, j, u, s
    <3>5. Reading(v, j + n) \in Take(b, j, n)
      BY <3>4, StandsTake
    <3> HIDE DEF n
    <3>6. Reading(v, j + n) \in Take(b, r.next, r.value) /\ Reading(v, j + n).value = v
      BY <3>3, <3>5 DEF Reading, j
    <3>7. Reading(v, j + n) \in ReadOne(Reads(types, b)[k], f, b, at, depth)
      BY <1>8, <2>1, <3>2, <3>6 DEF ReadOne
    <3> QED
      BY <3>4, <3>7
  <2> HIDE DEF s, u, Goal
  <2> QED
    BY <1>20, <2>4, <2>5, <2>6
<1>9. CASE f.form = "option" /\ v = <<>>
  <2>1. 0 \in Byte
    BY CodecAssumption DEF Byte
  <2> DEFINE s == <<0>>
  <2>2. s \in Seq(Byte) /\ s # <<>> /\ Len(s) = 1
    BY <2>1
  <2>3. w = Bytes(s)
    BY <1>3, <1>9 DEF Writes
  <2>4. ASSUME NEW b, NEW at, Stands(b, at, s)
        PROVE  Reading(v, at + Len(s)) \in ReadOne(Reads(types, b)[k], f, b, at, depth)
    <3> DEFINE x == Reading(s, at + 1)
    <3>1. x \in Take(b, at, 1)
      <4>1. 1 = Len(s)
        BY <2>2
      <4> HIDE DEF s
      <4> QED
        BY <2>4, <4>1, StandsTake
    <3>2. x.value = <<0>> /\ x.next = at + Len(s)
      BY <2>2 DEF Reading
    <3> HIDE DEF x, s
    <3>3. ReadOne(Reads(types, b)[k], f, b, at, depth) =
             UNION {IF r.value = <<0>> THEN {Reading(<<>>, r.next)}
                    ELSE IF r.value = <<1>>
                    THEN {Reading(<<y.value>>, y.next) : y \in Reads(types, b)[k][<<f.of, r.next, Inside(f, depth)>>]}
                    ELSE {} : r \in Take(b, at, 1)}
      BY <1>9 DEF ReadOne
    <3>4. Reading(<<>>, x.next) \in
             IF x.value = <<0>> THEN {Reading(<<>>, x.next)}
             ELSE IF x.value = <<1>>
             THEN {Reading(<<y.value>>, y.next) : y \in Reads(types, b)[k][<<f.of, x.next, Inside(f, depth)>>]}
             ELSE {}
      BY <3>2
    <3> QED
      BY <1>9, <3>1, <3>2, <3>3, <3>4
  <2> HIDE DEF s, Goal
  <2> QED
    BY <1>20, <2>2, <2>3, <2>4
<1>10. CASE f.form = "option" /\ v # <<>>
  <2>1. v = <<v[1]>>
    BY <1>3, <1>10 DEF Admits
  <2> DEFINE q == Part(f.of, v[1], Inside(f, depth))
             o == <<q>>
             u == <<1>>
             x == Bytes(u)
  <2>2. w = x \o o
    BY <1>3, <1>10 DEF Writes
  <2>3. 1 \in Byte
    BY CodecAssumption DEF Byte
  <2>4. u \in Seq(Byte) /\ Len(u) = 1 /\ u # <<>>
    BY <2>3
  <2>5. q.name = f.of /\ q.value = v[1] /\ q.depth = Inside(f, depth) /\ q.name # "byte"
    BY <1>1, <1>2, <1>10 DEF Part
  <2> HIDE DEF q, u
  <2>6. List(o) /\ Len(o) = 1 /\ o[1] = q /\ List(x) /\ Len(x) = 1
    BY <2>4, ListOfOne, BytesAre
  <2> HIDE DEF x, o
  <2>7. q \in Range(w)
    <3> DEFINE z == x \o o
    <3>1. List(z) /\ Len(z) = 2 /\ z[2] = q
      <4>1. 1 \in 1..Len(o) /\ 1 + 1 = 2
        BY <2>6
      <4>2. List(x \o o) /\ Len(x \o o) = Len(x) + Len(o) /\ \A i \in 1..Len(o) : (x \o o)[Len(x) + i] = o[i]
        <5>1. List(x) /\ List(o)
          BY <2>6
        <5> QED
          BY <5>1, ListConcat
      <4> QED
        BY <2>6, <4>1, <4>2
    <3> HIDE DEF z
    <3>2. 2 \in 1..Len(z)
      BY <3>1
    <3>3. q \in Range(z)
      BY <3>1, <3>2, InRange
    <3> QED
      BY <2>2, <3>3 DEF z
  <2>8. PICK t : CompleteAs(types, q, k, t)
    BY <1>4, <2>7 DEF Complete
  <2>9. /\ Spells(types, o, k, t) /\ t \in Seq(Byte) /\ List(t) /\ List(u)
        /\ \A b, at : Stands(b, at, t) =>
              Reading(v[1], at + Len(t)) \in Reads(types, b)[k][<<f.of, at, Inside(f, depth)>>]
    <3>1. Spells(types, o, k, t)
      BY <2>8 DEF CompleteAs, o
    <3>2. t \in Seq(Byte)
      BY <3>1 DEF Spells
    <3> QED
      BY <2>4, <2>5, <2>8, <3>1, <3>2 DEF CompleteAs, List
  <2> DEFINE s == u \o t
  <2>10. Spells(types, w, k, s)
    <3>1. Spells(types, x, k, u)
      BY <2>4, SpellsBytes DEF x
    <3>2. Spells(types, x \o o, k, s)
      BY <2>9, <3>1, SpellsConcat
    <3> QED
      BY <2>2, <3>2
  <2>11. s # <<>>
    <3>1. List(s) /\ Len(s) = 1 + Len(t) /\ Len(t) \in Nat
      <4>1. List(u) /\ List(t)
        BY <2>9
      <4>2. List(u \o t) /\ Len(u \o t) = Len(u) + Len(t)
        BY <4>1, ListConcat
      <4>3. Len(t) \in Nat
        BY <4>1, ListIs
      <4> QED
        BY <2>4, <4>2, <4>3
    <3> HIDE DEF s
    <3>2. Len(s) # 0
      BY <3>1
    <3> QED
      BY <3>1, <3>2, ListIs
  <2>12. ASSUME NEW b, NEW at, Stands(b, at, s)
         PROVE  Reading(v, at + Len(s)) \in ReadOne(Reads(types, b)[k], f, b, at, depth)
    <3> DEFINE reads == Reads(types, b)[k]
    <3>1. /\ Stands(b, at, u) /\ Stands(b, at + Len(u), t) /\ at + Len(s) = (at + Len(u)) + Len(t)
      <4>1. u \in Seq(Byte) /\ t \in Seq(Byte) /\ Stands(b, at, u \o t)
        BY <2>4, <2>9, <2>12
      <4> QED
        BY <4>1, StandsJoin
    <3> DEFINE j == at + 1
               y == Reading(v[1], j + Len(t))
               r == Reading(u, j)
    <3>2. Stands(b, j, t) /\ at + Len(s) = j + Len(t)
      BY <2>4, <3>1
    <3>3. r \in Take(b, at, 1)
      <4>1. 1 = Len(u)
        BY <2>4
      <4> QED
        BY <3>1, <4>1, StandsTake
    <3> HIDE DEF j, s
    <3>4. y \in reads[<<f.of, j, Inside(f, depth)>>]
      BY <2>9, <3>2
    <3>5. y.value = v[1] /\ y.next = j + Len(t) /\ r.next = j /\ r.value = <<1>>
      BY DEF Reading, u
    <3> HIDE DEF r, y, reads
    <3>6. ReadOne(reads, f, b, at, depth) =
             UNION {IF z.value = <<0>> THEN {Reading(<<>>, z.next)}
                    ELSE IF z.value = <<1>>
                    THEN {Reading(<<c.value>>, c.next) : c \in reads[<<f.of, z.next, Inside(f, depth)>>]}
                    ELSE {} : z \in Take(b, at, 1)}
      BY <1>10 DEF ReadOne
    <3>7. Reading(<<y.value>>, y.next) \in
             {Reading(<<c.value>>, c.next) : c \in reads[<<f.of, r.next, Inside(f, depth)>>]}
      BY <3>4, <3>5
    <3>8. r.value # <<0>> /\ r.value = <<1>>
      <4>1. <<1>> # <<0>>
        OBVIOUS
      <4> QED
        BY <3>5, <4>1
    <3>9. Reading(<<y.value>>, y.next) \in ReadOne(reads, f, b, at, depth)
      BY <3>3, <3>6, <3>7, <3>8
    <3>10. <<y.value>> = v /\ y.next = at + Len(s)
      BY <2>1, <3>2, <3>5
    <3> QED
      BY <3>9, <3>10 DEF reads
  <2> HIDE DEF s
  <2> QED
    BY <2>10, <2>11, <2>12
<1>11. CASE f.form = "many"
  <2> DEFINE n == Len(v)
             u == Varint[n]
             x == Bytes(u)
             deep == Inside(f, depth)
             names == [i \in 1..n |-> f.of]
             parts == [i \in 1..n |-> Part(f.of, v[i], deep)]
             codes == [i \in 1..n |-> Encoding(types, Part(f.of, v[i], deep))]
  <2>1. v \in Seq(Range(v)) /\ n <= MaxCount /\ InOrder(f.order, codes, v)
    BY <1>3, <1>11 DEF Admits
  <2>2. List(v) /\ n \in Nat
    BY <2>1 DEF List
  <2>3. n \in 0..(U64 - 1)
    BY <1>0, <2>1, <2>2
  <2>4. u \in Seq(Byte) /\ u # <<>>
    BY <2>3, VarintIsCanonical DEF Canonical
  <2>5. w = x \o parts
    BY <1>3, <1>11 DEF Writes
  <2>6. names = [i \in 1..n |-> names[i]] /\ (\A i \in 1..n : names[i] = f.of)
    OBVIOUS
  <2>7. parts = [i \in 1..n |-> parts[i]] /\ \A i \in 1..n : parts[i] = Part(f.of, v[i], deep)
    OBVIOUS
  <2>8. \A i \in 1..n : codes[i] = Encoding(types, Part(f.of, v[i], deep))
    OBVIOUS
  <2>9. codes = [i \in 1..n |-> codes[i]]
    OBVIOUS
  <2>10. InOrder(f.order, codes, v)
    BY <2>1
  <2> HIDE DEF codes, names, parts, u, n, deep
  <2>11. List(names) /\ Len(names) = n
    BY <2>2, <2>6, ListOf
  <2>12. List(parts) /\ Len(parts) = n
    BY <2>2, <2>7, ListOf
  <2>13. List(x)
    BY <2>4, BytesAre
  <2> HIDE DEF x
  <2>14. ASSUME NEW i \in 1..n
         PROVE  Complete(types, Part(names[i], v[i], deep), k)
    <3> DEFINE z == x \o parts
    <3>1. /\ List(z) /\ Len(z) = Len(x) + Len(parts)
          /\ \A m \in 1..Len(parts) : z[Len(x) + m] = parts[m]
      BY <2>12, <2>13, ListConcat
    <3> HIDE DEF z
    <3>2. Len(x) \in Nat
      BY <2>13, ListIs
    <3> DEFINE l == Len(x) + i
    <3>3. l \in 1..Len(z) /\ z[l] = parts[i]
      BY <2>2, <2>12, <3>1, <3>2
    <3> HIDE DEF l
    <3>4. parts[i] \in Range(z)
      BY <3>1, <3>3, InRange
    <3>5. Complete(types, parts[i], k)
      BY <1>4, <2>5, <3>4 DEF z
    <3> QED
      BY <2>6, <2>7, <3>5
  <2>15. PICK t : /\ Spells(types, parts, k, t) /\ Len(t) >= Len(names)
                 /\ \A b, at : Stands(b, at, t) =>
                       \E d \in ReadParts(Reads(types, b)[k], names, at, deep) :
                          /\ d.values = v /\ Last(d.ends) = at + Len(t)
                          /\ \A i \in 1..Len(names) :
                                SubSeq(b, d.ends[i] + 1, d.ends[i + 1]) = Encoding(types, parts[i])
    <3>1. "byte" \notin DOMAIN types
      BY <1>1
    <3>2. \A i \in 1..Len(names) : names[i] \in DOMAIN types
      BY <1>2, <1>11, <2>6, <2>11
    <3>3. Len(v) = Len(names) /\ Len(parts) = Len(names)
      BY <2>11, <2>12 DEF n
    <3>4. \A i \in 1..Len(names) : Complete(types, Part(names[i], v[i], deep), k)
      BY <2>11, <2>14
    <3>5. \A i \in 1..Len(names) : parts[i] = Part(names[i], v[i], deep)
      BY <2>6, <2>7, <2>11
    <3>6. List(names) /\ List(v) /\ List(parts)
      BY <2>2, <2>11, <2>12
    <3>7. \E t : CompleteParts(types, parts, k, names, deep, v, t)
      BY <3>1, <3>2, <3>3, <3>4, <3>5, <3>6, PartsComplete
    <3> QED
      BY <3>7 DEF CompleteParts
  <2>16. t \in Seq(Byte) /\ List(t) /\ List(u) /\ Len(t) \in Nat /\ Len(u) \in Nat /\ Len(u) # 0
    <3>1. t \in Seq(Byte)
      BY <2>15 DEF Spells
    <3> QED
      BY <2>4, <3>1 DEF List
  <2> DEFINE s == u \o t
  <2>17. Spells(types, w, k, s)
    <3>1. Spells(types, x, k, u)
      BY <2>4, SpellsBytes DEF x
    <3>2. Spells(types, x \o parts, k, s)
      BY <2>15, <3>1, SpellsConcat
    <3> QED
      BY <2>5, <3>2
  <2>18. s # <<>>
    <3>1. List(s) /\ Len(s) = Len(u) + Len(t)
      <4>1. List(u) /\ List(t)
        BY <2>16
      <4> QED
        BY <4>1, ListConcat
    <3> HIDE DEF s
    <3>2. Len(s) # 0
      BY <2>16, <3>1
    <3> QED
      BY <3>1, <3>2, ListIs
  <2>19. ASSUME NEW b, NEW at, Stands(b, at, s)
         PROVE  Reading(v, at + Len(s)) \in ReadOne(Reads(types, b)[k], f, b, at, depth)
    <3> DEFINE reads == Reads(types, b)[k]
               r == Reading(n, at + Len(u))
               j == r.next
    <3>1. /\ Reading(n, at + Len(Varint[n])) \in ReadLength(b, at, MaxCount)
          /\ Stands(b, at + Len(Varint[n]), t)
          /\ at + Len(Varint[n] \o t) = (at + Len(Varint[n])) + Len(t)
      <4>1. n <= MaxCount /\ n <= Len(t) /\ Stands(b, at, Varint[n] \o t)
        BY <2>1, <2>11, <2>15, <2>19 DEF u, n
      <4>2. t \in Seq(Byte) /\ MaxCount \in Nat /\ n \in 0..(U64 - 1)
        BY <1>0, <2>3, <2>16
      <4> HIDE DEF n
      <4>3. Counted(b, at, t, n, MaxCount)
        BY <4>1, <4>2, StandsLength, Zenon
      <4> QED
        BY <4>3, Zenon DEF Counted
    <3>2. /\ r \in ReadLength(b, at, MaxCount) /\ r.value = n /\ r.next = j
          /\ Stands(b, j, t) /\ at + Len(s) = j + Len(t)
      BY <3>1 DEF Reading, u
    <3> HIDE DEF r, j, s
    <3>3. PICK d \in ReadParts(reads, names, j, deep) :
             /\ d.values = v /\ Last(d.ends) = j + Len(t)
             /\ \A i \in 1..Len(names) :
                   SubSeq(b, d.ends[i] + 1, d.ends[i + 1]) = Encoding(types, parts[i])
      BY <2>15, <3>2
    <3> DEFINE spans == [i \in 1..n |-> SubSeq(b, d.ends[i] + 1, d.ends[i + 1])]
    <3>4. spans = codes
      <4>1. \A i \in 1..n : SubSeq(b, d.ends[i] + 1, d.ends[i + 1]) = codes[i]
        BY <2>7, <2>8, <2>11, <3>3
      <4>2. spans = [i \in 1..n |-> codes[i]]
        BY <4>1
      <4> QED
        BY <2>9, <4>2
    <3> HIDE DEF reads
    <3>5. Reading(d.values, Last(d.ends)) \in ReadMany(reads, f, b, n, j, deep)
      <4>1. d \in ReadParts(reads, [i \in 1..n |-> f.of], j, deep)
        BY <3>3 DEF names
      <4>2. InOrder(f.order, spans, d.values)
        BY <2>10, <3>3, <3>4
      <4> QED
        BY <4>1, <4>2 DEF ReadMany
    <3>6. Reading(v, at + Len(s)) \in ReadMany(reads, f, b, r.value, r.next, deep)
      BY <3>2, <3>3, <3>5
    <3>7. Reading(v, at + Len(s)) \in ReadOne(reads, f, b, at, depth)
      BY <1>11, <3>2, <3>6 DEF ReadOne, deep
    <3> QED
      BY <3>7 DEF reads
  <2> HIDE DEF s
  <2> QED
    BY <2>17, <2>18, <2>19
<1>12. CASE f.form = "nested"
  <2> DEFINE q == Part(f.of, v, Inside(f, depth))
             o == <<q>>
  <2>1. w = o
    BY <1>3, <1>12 DEF Writes
  <2>2. q.name = f.of /\ q.value = v /\ q.depth = Inside(f, depth) /\ q.name # "byte"
    BY <1>1, <1>2, <1>12 DEF Part
  <2> HIDE DEF q
  <2>3. List(o) /\ Len(o) = 1 /\ o[1] = q
    BY ListOfOne
  <2> HIDE DEF o
  <2>4. q \in Range(w)
    <3>1. 1 \in 1..Len(o)
      BY <2>3
    <3> QED
      BY <2>1, <2>3, <3>1, InRange
  <2>5. PICK t : CompleteAs(types, q, k, t)
    BY <1>4, <2>4 DEF Complete
  <2>6. Spells(types, w, k, t) /\ t # <<>>
    BY <2>1, <2>5 DEF CompleteAs, o
  <2>7. ASSUME NEW b, NEW at, Stands(b, at, t)
        PROVE  Reading(v, at + Len(t)) \in ReadOne(Reads(types, b)[k], f, b, at, depth)
    <3> DEFINE reads == Reads(types, b)[k]
    <3>1. Reading(v, at + Len(t)) \in reads[<<f.of, at, Inside(f, depth)>>]
      BY <2>2, <2>5, <2>7 DEF CompleteAs
    <3> HIDE DEF reads
    <3>2. Reading(v, at + Len(t)) \in ReadOne(reads, f, b, at, depth)
      BY <1>12, <3>1 DEF ReadOne
    <3> QED
      BY <3>2 DEF reads
  <2> QED
    BY <2>6, <2>7
<1>13. CASE f.form \in {"struct", "checked"}
  <2> DEFINE names == f.fields
             n == Len(names)
             parts == [i \in 1..n |-> Part(names[i], v[i], depth)]
  <2>1. v = [i \in 1..n |-> v[i]] /\ (f.form = "checked" => v \in f.legal)
    BY <1>3, <1>13 DEF Admits
  <2>2. names \in Seq(DOMAIN types) /\ names # <<>>
    BY <1>2, <1>13
  <2>3. List(names) /\ n \in Nat /\ n # 0 /\ \A i \in 1..n : names[i] \in DOMAIN types
    BY <2>2 DEF List
  <2>4. w = parts
    BY <1>3, <1>13 DEF Writes
  <2>5. parts = [i \in 1..n |-> parts[i]] /\ \A i \in 1..n : parts[i] = Part(names[i], v[i], depth)
    OBVIOUS
  <2> HIDE DEF parts, n
  <2>6. List(parts) /\ Len(parts) = n /\ List(v) /\ Len(v) = n
    <3>1. List(parts) /\ Len(parts) = n
      BY <2>3, <2>5, ListOf
    <3>2. List(v) /\ Len(v) = n
      BY <2>1, <2>3, ListOf
    <3> QED
      BY <3>1, <3>2
  <2> HIDE DEF names
  <2>7. \A i \in 1..n : Complete(types, Part(names[i], v[i], depth), k)
    <3> SUFFICES ASSUME NEW i \in 1..n
                 PROVE  Complete(types, Part(names[i], v[i], depth), k)
      OBVIOUS
    <3>1. parts[i] \in Range(parts)
      BY <2>6, InRange
    <3>2. Complete(types, parts[i], k)
      BY <1>4, <2>4, <3>1
    <3> QED
      BY <2>5, <3>2
  <2>8. PICK t : /\ Spells(types, parts, k, t) /\ Len(t) >= Len(names)
                 /\ \A b, at : Stands(b, at, t) =>
                       \E d \in ReadParts(Reads(types, b)[k], names, at, depth) :
                          /\ d.values = v /\ Last(d.ends) = at + Len(t)
                          /\ \A i \in 1..Len(names) :
                                SubSeq(b, d.ends[i] + 1, d.ends[i + 1]) = Encoding(types, parts[i])
    <3>1. "byte" \notin DOMAIN types
      BY <1>1
    <3>2. \A i \in 1..Len(names) : names[i] \in DOMAIN types
      BY <2>3 DEF n
    <3>3. Len(v) = Len(names) /\ Len(parts) = Len(names)
      BY <2>6 DEF n
    <3>4. \A i \in 1..Len(names) : Complete(types, Part(names[i], v[i], depth), k)
      BY <2>7 DEF n
    <3>5. \A i \in 1..Len(names) : parts[i] = Part(names[i], v[i], depth)
      BY <2>5 DEF n
    <3>6. List(names) /\ List(v) /\ List(parts)
      BY <2>3, <2>6
    <3>7. \E t : CompleteParts(types, parts, k, names, depth, v, t)
      BY <3>1, <3>2, <3>3, <3>4, <3>5, <3>6, PartsComplete
    <3> QED
      BY <3>7 DEF CompleteParts
  <2>9. t # <<>>
    <3>1. t \in Seq(Byte) /\ Len(t) >= n
      BY <2>8 DEF Spells, n
    <3>2. Len(t) # 0
      BY <2>3, <3>1
    <3> QED
      BY <3>1, <3>2, EmptySeq
  <2>10. ASSUME NEW b, NEW at, Stands(b, at, t)
         PROVE  Reading(v, at + Len(t)) \in ReadOne(Reads(types, b)[k], f, b, at, depth)
    <3> DEFINE reads == Reads(types, b)[k]
    <3>1. PICK d \in ReadParts(reads, names, at, depth) : d.values = v /\ Last(d.ends) = at + Len(t)
      BY <2>8, <2>10
    <3> HIDE DEF reads
    <3>2. Reading(d.values, Last(d.ends)) \in ReadFields(reads, f, at, depth)
      BY <3>1 DEF ReadFields, names
    <3>3. Reading(v, at + Len(t)) \in ReadFields(reads, f, at, depth)
      BY <3>1, <3>2
    <3>4. Reading(v, at + Len(t)).value = v
      BY DEF Reading
    <3>5. Reading(v, at + Len(t)) \in ReadOne(reads, f, b, at, depth)
      BY <1>13, <2>1, <3>3, <3>4 DEF ReadOne
    <3> QED
      BY <3>5 DEF reads
  <2> QED
    BY <2>4, <2>8, <2>9, <2>10
<1>14. CASE f.form = "tagged"
  <2>1. v = <<v[1], v[2]>> /\ v[1] \in DOMAIN f.cases
    BY <1>3, <1>14 DEF Admits
  <2> DEFINE q == Part(f.tag, v[1], depth)
             z == Part(f.cases[v[1]], v[2], depth)
             x == <<q>>
             y == <<z>>
  <2>2. w = x \o y
    <3>1. w = <<q, z>>
      BY <1>3, <1>14 DEF Writes
    <3> HIDE DEF q, z
    <3>2. x \o y = <<q, z>>
      BY TwoParts
    <3> QED
      BY <3>1, <3>2
  <2>3. /\ q.name = f.tag /\ q.value = v[1] /\ q.depth = depth /\ q.name # "byte"
        /\ z.name = f.cases[v[1]] /\ z.value = v[2] /\ z.depth = depth /\ z.name # "byte"
    BY <1>1, <1>2, <1>14, <2>1 DEF Part
  <2> HIDE DEF q, z
  <2>4. List(x) /\ Len(x) = 1 /\ x[1] = q /\ List(y) /\ Len(y) = 1 /\ y[1] = z
    BY ListOfOne
  <2> HIDE DEF x, y
  <2>5. q \in Range(w) /\ z \in Range(w)
    <3>1. 1 \in 1..1 /\ 1 + 1 = 2
      OBVIOUS
    <3>2. /\ List(x \o y) /\ Len(x \o y) = Len(x) + Len(y)
          /\ (\A i \in 1..Len(x) : (x \o y)[i] = x[i])
          /\ \A i \in 1..Len(y) : (x \o y)[Len(x) + i] = y[i]
      <4>1. List(x) /\ List(y)
        BY <2>4
      <4> QED
        BY <4>1, ListConcat
    <3>3. List(w) /\ Len(w) = 2 /\ w[1] = q /\ w[2] = z
      BY <2>2, <2>4, <3>1, <3>2
    <3>4. 1 \in 1..Len(w) /\ 2 \in 1..Len(w)
      BY <3>3
    <3>5. w[1] \in Range(w)
      BY <3>3, <3>4, InRange
    <3>6. w[2] \in Range(w)
      BY <3>3, <3>4, InRange
    <3> QED
      BY <3>3, <3>5, <3>6
  <2>6. PICK u : CompleteAs(types, q, k, u)
    BY <1>4, <2>5 DEF Complete
  <2>7. PICK t : CompleteAs(types, z, k, t)
    BY <1>4, <2>5 DEF Complete
  <2>8. Spells(types, x, k, u) /\ Spells(types, y, k, t) /\ u # <<>>
    BY <2>6, <2>7 DEF CompleteAs, x, y
  <2>9. /\ \A b, at : Stands(b, at, u) =>
              Reading(v[1], at + Len(u)) \in Reads(types, b)[k][<<f.tag, at, depth>>]
        /\ \A b, at : Stands(b, at, t) =>
              Reading(v[2], at + Len(t)) \in Reads(types, b)[k][<<f.cases[v[1]], at, depth>>]
    BY <2>3, <2>6, <2>7 DEF CompleteAs
  <2>10. u \in Seq(Byte) /\ t \in Seq(Byte)
    BY <2>8 DEF Spells
  <2> DEFINE s == u \o t
  <2>11. Spells(types, w, k, s)
    <3>1. Spells(types, x \o y, k, s)
      BY <2>8, SpellsConcat
    <3> QED
      BY <2>2, <3>1
  <2>12. s # <<>>
    <3>1. s \in Seq(Byte) /\ Len(s) = Len(u) + Len(t)
      BY <2>10, ConcatProperties
    <3>2. Len(u) \in Nat /\ Len(u) # 0 /\ Len(t) \in Nat
      BY <2>8, <2>10, EmptySeq
    <3> HIDE DEF s
    <3>3. Len(s) # 0
      BY <3>1, <3>2
    <3> QED
      BY <3>1, <3>3, EmptySeq
  <2>13. ASSUME NEW b, NEW at, Stands(b, at, s)
         PROVE  Reading(v, at + Len(s)) \in ReadOne(Reads(types, b)[k], f, b, at, depth)
    <3> DEFINE reads == Reads(types, b)[k]
               j == at + Len(u)
               r == Reading(v[1], j)
               c == Reading(v[2], j + Len(t))
    <3>1. /\ Stands(b, at, u) /\ Stands(b, at + Len(u), t) /\ at + Len(s) = (at + Len(u)) + Len(t)
      <4>1. u \in Seq(Byte) /\ t \in Seq(Byte) /\ Stands(b, at, u \o t)
        BY <2>10, <2>13
      <4> QED
        BY <4>1, StandsJoin
    <3>2. r \in reads[<<f.tag, at, depth>>] /\ Stands(b, j, t) /\ at + Len(s) = j + Len(t)
      BY <2>9, <3>1
    <3> HIDE DEF j, s
    <3>3. c \in reads[<<f.cases[v[1]], j, depth>>]
      BY <2>9, <3>2
    <3>4. r.value = v[1] /\ r.next = j /\ c.value = v[2] /\ c.next = j + Len(t)
      BY DEF Reading
    <3> HIDE DEF r, c, reads
    <3>5. Reading(<<r.value, c.value>>, c.next) \in
             {Reading(<<r.value, m.value>>, m.next) : m \in reads[<<f.cases[r.value], r.next, depth>>]}
      BY <3>3, <3>4
    <3>6. r \in {a \in reads[<<f.tag, at, depth>>] : a.value \in DOMAIN f.cases}
      BY <2>1, <3>2, <3>4
    <3>7. \A o : (\E a \in {a \in reads[<<f.tag, at, depth>>] : a.value \in DOMAIN f.cases} :
                     o \in {Reading(<<a.value, m.value>>, m.next) :
                              m \in reads[<<f.cases[a.value], a.next, depth>>]})
                 => o \in ReadOne(reads, f, b, at, depth)
      BY <1>14 DEF ReadOne
    <3>8. Reading(<<r.value, c.value>>, c.next) \in ReadOne(reads, f, b, at, depth)
      <4> DEFINE o == Reading(<<r.value, c.value>>, c.next)
      <4>1. o \in {Reading(<<r.value, m.value>>, m.next) : m \in reads[<<f.cases[r.value], r.next, depth>>]}
        BY <3>5
      <4> HIDE DEF o
      <4>2. o \in ReadOne(reads, f, b, at, depth)
        BY <3>6, <3>7, <4>1
      <4> QED
        BY <4>2 DEF o
    <3>9. <<r.value, c.value>> = v /\ c.next = at + Len(s)
      BY <2>1, <3>2, <3>4
    <3> QED
      BY <3>8, <3>9 DEF reads
  <2> HIDE DEF s
  <2> QED
    BY <2>11, <2>12, <2>13
<1> HIDE DEF Goal
<1>15. CASE f.form = "option"
  BY <1>9, <1>10, <1>15
<1> QED
  BY <1>2, <1>5, <1>6, <1>7, <1>8, <1>11, <1>12, <1>13, <1>14, <1>15

----------------------------------------------------------------------------
(* Every value of its type is read back. *)

\* h is the parts of met admitted, by how far down they are looked at.
Admitting(h, types, met, n) ==
    h = [d \in 0..n |-> IF d = 0 THEN {} ELSE Admitted(types, met, h[d - 1])]

\* The parts that are met exist level by level.
LEMMA AdmittingIs ==
    ASSUME NEW types, NEW met
    PROVE  \E h : Admitting(h, types, met, Calls)
<1>0. Calls \in Nat
  BY CodecAssumption
<1> DEFINE n == Calls
           B == {m \in 0..n : \E h : Admitting(h, types, met, m)}
<1>1. 0 \in B
  <2>1. Admitting([d \in 0..0 |-> {}], types, met, 0)
    BY DEF Admitting
  <2> QED
    BY <1>0, <2>1
<1>2. ASSUME NEW m \in 1..n, m - 1 \in B
      PROVE  m \in B
  <2>1. PICK h : Admitting(h, types, met, m - 1)
    BY <1>2
  <2> DEFINE g == [d \in 0..m |-> IF d = m THEN Admitted(types, met, h[m - 1]) ELSE h[d]]
  <2>2. ASSUME NEW d \in 0..m
        PROVE  g[d] = IF d = 0 THEN {} ELSE Admitted(types, met, g[d - 1])
    <3>1. CASE d = m
      <4>1. d - 1 \in 0..m /\ d - 1 # m /\ d # 0
        BY <3>1
      <4> QED
        BY <3>1, <4>1
    <3>2. CASE d # m
      <4>1. d \in 0..(m - 1) /\ (d # 0 => d - 1 \in 0..m /\ d - 1 # m)
        BY <3>2
      <4>2. h[d] = IF d = 0 THEN {} ELSE Admitted(types, met, h[d - 1])
        BY <2>1, <4>1 DEF Admitting
      <4>3. g[d] = h[d] /\ (d # 0 => g[d - 1] = h[d - 1])
        BY <3>2, <4>1
      <4> HIDE DEF g
      <4> QED
        BY <4>2, <4>3
    <3> QED
      BY <3>1, <3>2
  <2>3. g = [d \in 0..m |-> g[d]]
    OBVIOUS
  <2> HIDE DEF g
  <2>4. Admitting(g, types, met, m)
    BY <2>2, <2>3 DEF Admitting
  <2> QED
    BY <2>4
<1>3. n \in B
  <2>1. n \in Nat
    BY <1>0
  <2>2. \A m \in 1..n : m - 1 \in B => m \in B
    BY <1>2
  <2> HIDE DEF B, n
  <2>3. \A m \in 0..n : m \in B
    BY <1>1, <2>1, <2>2, Climb
  <2> QED
    BY <2>1, <2>3
<1>4. PICK h : Admitting(h, types, met, n)
  BY <1>3
<1> QED
  BY <1>4

\* A value of its type is admitted.
LEMMA ValueIs ==
    ASSUME NEW types, NEW name, NEW v, IsValue(types, name, v)
    PROVE  \E met, h : Admitting(h, types, met, Calls) /\ Part(name, v, 0) \in h[Calls]
<1> DEFINE p == Part(name, v, 0)
           met == UNION {Range(Writing(types, <<p>>)[n]) : n \in 0..Calls}
           f == CHOOSE f : Admitting(f, types, met, Calls)
<1>1. \E h : Admitting(h, types, met, Calls)
  <2> HIDE DEF met
  <2> QED
    BY AdmittingIs
<1>2. Admitting(f, types, met, Calls)
  <2> HIDE DEF met
  <2> QED
    BY <1>1, Zenon
<1>3. p \in f[Calls]
  BY Zenon DEF IsValue, Admitting
<1> HIDE DEF f
<1> QED
  BY <1>2, <1>3

\* Bytes are complete.
LEMMA ByteComplete ==
    ASSUME NEW types, NEW c \in Byte, NEW k \in 0..Calls
    PROVE  Complete(types, Part("byte", c, 0), k)
<1> DEFINE p == Part("byte", c, 0)
           s == <<c>>
<1>1. s \in Seq(Byte) /\ s # <<>> /\ Len(s) = 1 /\ s[1] = c
  OBVIOUS
<1>2. Bytes(s) = <<p>>
  <2>1. List(Bytes(s)) /\ Len(Bytes(s)) = 1 /\ Bytes(s)[1] = p
    <3>1. List(Bytes(s)) /\ Len(Bytes(s)) = Len(s) /\ \A i \in 1..Len(s) : Bytes(s)[i] = Part("byte", s[i], 0)
      <4> HIDE DEF s
      <4> QED
        BY <1>1, BytesAre
    <3>2. 1 \in 1..Len(s)
      BY <1>1
    <3> QED
      BY <1>1, <3>1, <3>2
  <2> DEFINE x == Bytes(s)
             o == <<p>>
  <2>2. List(x) /\ Len(x) = 1 /\ x[1] = p
    BY <2>1
  <2> HIDE DEF x, p
  <2>3. List(o) /\ Len(o) = 1 /\ o[1] = p
    BY ListOfOne
  <2> HIDE DEF o
  <2>4. \A i \in 1..Len(x) : x[i] = o[i]
    BY <2>2, <2>3
  <2>5. x = o
    BY <2>2, <2>3, <2>4, ListEqual
  <2> QED
    BY <2>5 DEF x, o
<1>3. Spells(types, Bytes(s), k, s)
  <2> HIDE DEF s
  <2> QED
    BY <1>1, SpellsBytes
<1>4. p.name = "byte"
  BY DEF Part
<1> HIDE DEF s, p
<1>5. CompleteAs(types, p, k, s)
  BY <1>1, <1>2, <1>3, <1>4 DEF CompleteAs
<1>6. Complete(types, p, k)
  BY <1>5 DEF Complete
<1> QED
  BY <1>6 DEF p

\* A value of its type, one call further down.
LEMMA CallComplete ==
    ASSUME NEW types, WellNamed(types), NEW p, Admits(types, p), NEW k \in 1..Calls,
           \A q \in Range(Writes(types, p)) : Complete(types, q, k - 1)
    PROVE  Complete(types, p, k)
<1>0. /\ k - 1 \in 0..Calls /\ k - 1 \in 0..(Calls - 1) /\ (k - 1) + 1 = k /\ MaxNesting \in Nat
  BY CodecAssumption
<1> DEFINE l == k - 1
<1>1. l \in 0..Calls /\ l \in 0..(Calls - 1) /\ l + 1 = k
  BY <1>0
<1>2. \A q \in Range(Writes(types, p)) : Complete(types, q, l)
  OBVIOUS
<1> HIDE DEF l
<1>3. PICK s : /\ Spells(types, Writes(types, p), l, s) /\ s # <<>>
               /\ \A b, at : Stands(b, at, s) =>
                     Reading(p.value, at + Len(s))
                        \in ReadOne(Reads(types, b)[l], types[p.name], b, at, p.depth)
  BY <1>1, <1>2, ReadOneComplete
<1>4. Spells(types, <<p>>, k, s)
  <2>1. Spells(types, <<p>>, l + 1, s)
    BY <1>1, <1>3, SpellsCall
  <2> QED
    BY <1>1, <2>1
<1>5. p.name \in DOMAIN types /\ p.depth \in 0..MaxNesting
  BY DEF Admits
<1>6. ASSUME NEW b, NEW at, Stands(b, at, s)
      PROVE  Reading(p.value, at + Len(s)) \in Reads(types, b)[k][<<p.name, at, p.depth>>]
  <2> DEFINE name == p.name
             depth == p.depth
             h == Reads(types, b)
  <2>1. b \in Seq(Byte) /\ at \in 0..Len(b) /\ name \in DOMAIN types
        /\ depth \in 0..(MaxNesting + 1) /\ ~ (depth > MaxNesting)
    BY <1>0, <1>5, <1>6 DEF Stands
  <2> HIDE DEF name, depth
  <2>2. h[k][<<name, at, depth>>] =
           IF depth > MaxNesting THEN {} ELSE ReadOne(h[k - 1], types[name], b, at, depth)
    BY <2>1, ReadsIs
  <2> HIDE DEF h
  <2>3. h[k][<<name, at, depth>>] = ReadOne(h[l], types[name], b, at, depth)
    BY <2>1, <2>2 DEF l
  <2>4. Reading(p.value, at + Len(s)) \in ReadOne(h[l], types[name], b, at, depth)
    BY <1>3, <1>6 DEF h, name, depth
  <2> QED
    BY <2>3, <2>4 DEF h, name, depth
<1> QED
  BY <1>3, <1>4, <1>6 DEF Complete, CompleteAs

\* What is admitted is complete.
LEMMA AdmittedComplete ==
    ASSUME NEW types, WellNamed(types), NEW met, NEW h, Admitting(h, types, met, Calls)
    PROVE  \A k \in 0..Calls : \A q \in h[k] : Complete(types, q, k)
<1> DEFINE B == {k \in 0..Calls : \A q \in h[k] : Complete(types, q, k)}
<1>0. Calls \in Nat
  BY CodecAssumption
<1>1. 0 \in B
  <2>1. h[0] = {}
    BY <1>0 DEF Admitting
  <2> QED
    BY <1>0, <2>1
<1>2. ASSUME NEW k \in 1..Calls, k - 1 \in B
      PROVE  k \in B
  <2>1. k \in 0..Calls /\ k # 0
    BY <1>0
  <2>2. h[k] = Admitted(types, met, h[k - 1])
    BY <2>1 DEF Admitting
  <2>3. ASSUME NEW q \in h[k]
        PROVE  Complete(types, q, k)
    <3>1. /\ q \in met
          /\ \/ q = Part("byte", q.value, 0) /\ q.value \in Byte
             \/ Admits(types, q) /\ Range(Writes(types, q)) \subseteq h[k - 1]
      BY <2>2 DEF Admitted
    <3>2. CASE q = Part("byte", q.value, 0) /\ q.value \in Byte
      <4> DEFINE c == q.value
      <4>1. c \in Byte /\ q = Part("byte", c, 0)
        BY <3>2
      <4> HIDE DEF c
      <4>2. Complete(types, Part("byte", c, 0), k)
        BY <2>1, <4>1, ByteComplete
      <4> QED
        BY <4>1, <4>2
    <3>3. CASE Admits(types, q) /\ Range(Writes(types, q)) \subseteq h[k - 1]
      <4>1. \A x \in Range(Writes(types, q)) : Complete(types, x, k - 1)
        BY <1>2, <3>3
      <4> QED
        BY <3>3, <4>1, CallComplete
    <3> QED
      BY <3>1, <3>2, <3>3
  <2> QED
    BY <2>1, <2>3
<1> HIDE DEF B
<1>3. \A k \in 0..Calls : k \in B
  BY <1>0, <1>1, <1>2, Climb
<1> QED
  BY <1>3 DEF B

\* A value of its type no longer than is accepted decodes, from what it is
\* written as, to itself and to nothing else.
LEMMA WrittenIsDecoded ==
    ASSUME NEW types, WellNamed(types), NEW name \in DOMAIN types, NEW v,
           IsValue(types, name, v), Len(Written(types, name, v)) <= MaxObject
    PROVE  /\ Written(types, name, v) \in Seq(Byte)
           /\ Decoded(types, name, Written(types, name, v)) = {v}
<1> DEFINE p == Part(name, v, 0)
           b == Written(types, name, v)
<1>0. Calls \in 0..Calls /\ MaxNesting \in Nat
  BY CodecAssumption
<1>1. p.name = name /\ p.value = v /\ p.depth = 0 /\ p.name # "byte"
  <2>1. "byte" \notin DOMAIN types
    BY DEF WellNamed, Naming
  <2> QED
    BY <2>1 DEF Part
<1>2. b = Encoding(types, p)
  BY DEF Written
<1>3. Len(b) <= MaxObject
  OBVIOUS
<1>4. PICK met, h : Admitting(h, types, met, Calls) /\ p \in h[Calls]
  BY ValueIs
<1> HIDE DEF p, b
<1>5. Complete(types, p, Calls)
  BY <1>0, <1>4, AdmittedComplete
<1>6. PICK s : CompleteAs(types, p, Calls, s)
  BY <1>5 DEF Complete
<1>7. Spells(types, <<p>>, Calls, s)
  BY <1>6 DEF CompleteAs
<1>8. b = s
  BY <1>2, <1>7, EncodingIs
<1>9. b \in Seq(Byte)
  BY <1>7, <1>8 DEF Spells
<1> DEFINE h2 == Reads(types, b)[Calls]
           places == h2[<<name, 0, 0>>]
<1>10. Reading(v, 0 + Len(b)) \in places
  <2>1. Stands(b, 0, s)
    BY <1>8, <1>9, StandsItself
  <2> DEFINE at == 0
  <2>2. Stands(b, at, s)
    BY <2>1
  <2> HIDE DEF at
  <2>3. Reading(p.value, at + Len(s)) \in Reads(types, b)[Calls][<<p.name, at, p.depth>>]
    BY <1>1, <1>6, <2>2 DEF CompleteAs
  <2> QED
    BY <1>1, <1>8, <2>3 DEF at
<1>11. \A r, q \in places : r = q
  <2>1. Once(types, b, h2)
    BY <1>0, <1>9, ReadsOnce
  <2>2. 0 \in 0..Len(b) /\ 0 \in 0..(MaxNesting + 1)
    BY <1>0, <1>9
  <2> HIDE DEF h2
  <2> QED
    BY <2>1, <2>2 DEF Once
<1> DEFINE x == Reading(v, Len(b))
<1>12. x \in places /\ x.next = Len(b) /\ x.value = v
  <2>1. 0 + Len(b) = Len(b)
    BY <1>9
  <2> QED
    BY <1>10, <2>1 DEF Reading
<1>13. Decoded(types, name, b) = {r.value : r \in {y \in places : Len(b) <= MaxObject /\ y.next = Len(b)}}
  BY DEF Decoded
<1> HIDE DEF x, places
<1>14. Decoded(types, name, b) = {v}
  BY <1>3, <1>11, <1>12, <1>13
<1> QED
  BY <1>9, <1>14 DEF b

----------------------------------------------------------------------------
(* The schemas of the protocol. *)

\* Each form of schema names what it is given.
LEMMA NamingForms ==
    ASSUME NEW D
    PROVE  /\ \A S : Naming(D, Number(S)) /\ Naming(D, Octet(S)) /\ Naming(D, Text(S))
           /\ \A n \in Nat \ {0} : Naming(D, Raw(n))
           /\ \A x \in D : Naming(D, Option(x)) /\ Naming(D, Seqs(x)) /\ Naming(D, Sets(x))
                           /\ Naming(D, OptionHere(x)) /\ Naming(D, Nested(x)) /\ \A key : Naming(D, Map(key, x))
           /\ \A fs \in Seq(D) : fs # <<>> =>
                 Naming(D, Struct(fs)) /\ \A S : Naming(D, Checked(fs, S))
           /\ \A x \in D : \A cases : (\A t \in DOMAIN cases : cases[t] \in D) =>
                 Naming(D, Tagged(x, cases))
<1>1. \A S : Naming(D, Number(S)) /\ Naming(D, Octet(S)) /\ Naming(D, Text(S))
  BY DEF Naming, Number, Octet, Text
<1>2. \A n \in Nat \ {0} : Naming(D, Raw(n))
  BY DEF Naming, Raw
<1>3. \A x \in D : Naming(D, Option(x)) /\ Naming(D, Seqs(x)) /\ Naming(D, Sets(x))
                   /\ Naming(D, OptionHere(x)) /\ Naming(D, Nested(x)) /\ \A key : Naming(D, Map(key, x))
  BY DEF Naming, Option, OptionHere, Seqs, Sets, Nested, Map
<1>4. \A fs \in Seq(D) : fs # <<>> => Naming(D, Struct(fs)) /\ \A S : Naming(D, Checked(fs, S))
  BY DEF Naming, Struct, Checked
<1>5. \A x \in D : \A cases : (\A t \in DOMAIN cases : cases[t] \in D) => Naming(D, Tagged(x, cases))
  BY DEF Naming, Tagged
<1> QED
  BY <1>1, <1>2, <1>3, <1>4, <1>5

\* The names of the schemas.
LEMMA TypeNames ==
    DOMAIN TypeSchemas =
      {
        "Hash", "Salt", "Version", "Bool", "Word", "Medium", "Small",
        "Amount", "Lane", "Ratio", "Nonce", "AlgorithmByte", "VerifyingKey",
        "Signature", "Name", "Device", "Account", "AssetRecord",
        "CommitmentRecord", "PendingRecovery", "AccountOffence",
        "ValidatorOffence", "PendingClosure", "Purse", "Multiplier",
        "ValidatorRecord", "TxKind", "TxBody", "Transaction",
        "AccountEquivocation", "FinalityRung", "BlockHeader",
        "SignedHeader", "ValidatorEquivocation", "Vote", "Certificate",
        "Block", "PayWordIndex", "PayWordToken", "DelayParameters",
        "DelayProof", "SmtLeaf", "SmtProof"}
BY DEF TypeSchemas

\* The names of the containers.
LEMMA ContainerNames ==
    DOMAIN ContainerSchemas =
      {
        "OptionHash", "Validity", "OptionName", "OptionClosure",
        "OptionCertificate", "OptionLeaf", "Hashes", "HashSet", "Votes",
        "Transactions", "Balance", "Balances", "DeviceEntry", "Devices",
        "LaneEntry", "Lanes", "NestedAccountEquivocation",
        "NestedValidatorEquivocation"}
BY DEF ContainerSchemas

\* The names of the transaction kinds.
LEMMA KindNames ==
    /\ DOMAIN KindSchemas = Range(KindName) /\ DOMAIN KindName = 1..21
    /\ \A i \in 1..21 : KindName[i] \in Range(KindName)
<1>1. DOMAIN KindName = 1..21
  BY DEF KindName
<1> QED
  BY <1>1 DEF KindSchemas, Range

\* What each kind of transaction carries is named by a schema.
LEMMA FieldsAre ==
    ASSUME NEW D, DOMAIN TypeSchemas \subseteq D, DOMAIN ContainerSchemas \subseteq D
    PROVE  \A i \in 1..21 : TxKindFields[i] \in Seq(D) /\ TxKindFields[i] # <<>>
<1>1. {
        "Amount", "Bool", "Hash", "HashSet", "Lane", "Medium", "Name",
        "NestedAccountEquivocation", "NestedValidatorEquivocation",
        "OptionHash", "Salt", "Signature", "Small", "VerifyingKey", "Word"} \subseteq D
  BY TypeNames, ContainerNames
<1>2. /\ TxKindFields[1] = <<"Hash", "OptionHash", "Amount">>
      /\ <<"Hash", "OptionHash", "Amount">> \in Seq(D)
      /\ <<"Hash", "OptionHash", "Amount">> # <<>>
  BY <1>1 DEF TxKindFields
<1>3. TxKindFields[2] = <<"Amount", "Amount">> /\ <<"Amount", "Amount">> \in Seq(D) /\ <<"Amount", "Amount">> # <<>>
  BY <1>1 DEF TxKindFields
<1>4. /\ TxKindFields[3] = <<"VerifyingKey", "Lane", "Amount">>
      /\ <<"VerifyingKey", "Lane", "Amount">> \in Seq(D)
      /\ <<"VerifyingKey", "Lane", "Amount">> # <<>>
  BY <1>1 DEF TxKindFields
<1>5. TxKindFields[4] = <<"Hash">> /\ <<"Hash">> \in Seq(D) /\ <<"Hash">> # <<>>
  BY <1>1 DEF TxKindFields
<1>6. TxKindFields[5] = <<"Hash">> /\ <<"Hash">> \in Seq(D) /\ <<"Hash">> # <<>>
  BY <1>1 DEF TxKindFields
<1>7. TxKindFields[6] = <<"Name", "Salt">> /\ <<"Name", "Salt">> \in Seq(D) /\ <<"Name", "Salt">> # <<>>
  BY <1>1 DEF TxKindFields
<1>8. TxKindFields[7] = <<"HashSet", "Medium">> /\ <<"HashSet", "Medium">> \in Seq(D) /\ <<"HashSet", "Medium">> # <<>>
  BY <1>1 DEF TxKindFields
<1>9. /\ TxKindFields[8] = <<"Hash", "VerifyingKey">>
      /\ <<"Hash", "VerifyingKey">> \in Seq(D)
      /\ <<"Hash", "VerifyingKey">> # <<>>
  BY <1>1 DEF TxKindFields
<1>10. TxKindFields[9] = <<"Hash">> /\ <<"Hash">> \in Seq(D) /\ <<"Hash">> # <<>>
  BY <1>1 DEF TxKindFields
<1>11. TxKindFields[10] = <<"Hash">> /\ <<"Hash">> \in Seq(D) /\ <<"Hash">> # <<>>
  BY <1>1 DEF TxKindFields
<1>12. TxKindFields[11] = <<"Amount", "Hash">> /\ <<"Amount", "Hash">> \in Seq(D) /\ <<"Amount", "Hash">> # <<>>
  BY <1>1 DEF TxKindFields
<1>13. TxKindFields[12] = <<"Amount">> /\ <<"Amount">> \in Seq(D) /\ <<"Amount">> # <<>>
  BY <1>1 DEF TxKindFields
<1>14. /\ TxKindFields[13] = <<"Hash", "OptionHash", "Amount", "Hash", "Amount", "Word">>
      /\ <<"Hash", "OptionHash", "Amount", "Hash", "Amount", "Word">> \in Seq(D)
      /\ <<"Hash", "OptionHash", "Amount", "Hash", "Amount", "Word">> # <<>>
  BY <1>1 DEF TxKindFields
<1>15. /\ TxKindFields[14] = <<"Hash", "Amount", "Amount", "Signature">>
      /\ <<"Hash", "Amount", "Amount", "Signature">> \in Seq(D)
      /\ <<"Hash", "Amount", "Amount", "Signature">> # <<>>
  BY <1>1 DEF TxKindFields
<1>16. /\ TxKindFields[15] = <<"Hash", "Medium", "Hash">>
      /\ <<"Hash", "Medium", "Hash">> \in Seq(D)
      /\ <<"Hash", "Medium", "Hash">> # <<>>
  BY <1>1 DEF TxKindFields
<1>17. /\ TxKindFields[16] = <<"Hash", "Medium", "Hash">>
      /\ <<"Hash", "Medium", "Hash">> \in Seq(D)
      /\ <<"Hash", "Medium", "Hash">> # <<>>
  BY <1>1 DEF TxKindFields
<1>18. /\ TxKindFields[17] = <<"Name", "Small", "Bool">>
      /\ <<"Name", "Small", "Bool">> \in Seq(D)
      /\ <<"Name", "Small", "Bool">> # <<>>
  BY <1>1 DEF TxKindFields
<1>19. /\ TxKindFields[18] = <<"Hash", "Hash", "Amount">>
      /\ <<"Hash", "Hash", "Amount">> \in Seq(D)
      /\ <<"Hash", "Hash", "Amount">> # <<>>
  BY <1>1 DEF TxKindFields
<1>20. TxKindFields[19] = <<"Hash", "Amount">> /\ <<"Hash", "Amount">> \in Seq(D) /\ <<"Hash", "Amount">> # <<>>
  BY <1>1 DEF TxKindFields
<1>21. /\ TxKindFields[20] = <<"NestedAccountEquivocation">>
      /\ <<"NestedAccountEquivocation">> \in Seq(D)
      /\ <<"NestedAccountEquivocation">> # <<>>
  BY <1>1 DEF TxKindFields
<1>22. /\ TxKindFields[21] = <<"NestedValidatorEquivocation">>
      /\ <<"NestedValidatorEquivocation">> \in Seq(D)
      /\ <<"NestedValidatorEquivocation">> # <<>>
  BY <1>1 DEF TxKindFields
<1> DEFINE Listed(i) == TxKindFields[i] \in Seq(D) /\ TxKindFields[i] # <<>>
<1>23. Listed(1) /\ Listed(2) /\ Listed(3) /\ Listed(4) /\ Listed(5) /\ Listed(6) /\ Listed(7)
  BY <1>2, <1>3, <1>4, <1>5, <1>6, <1>7, <1>8, Zenon
<1>24. Listed(8) /\ Listed(9) /\ Listed(10) /\ Listed(11) /\ Listed(12) /\ Listed(13) /\ Listed(14)
  BY <1>9, <1>10, <1>11, <1>12, <1>13, <1>14, <1>15, Zenon
<1>25. Listed(15) /\ Listed(16) /\ Listed(17) /\ Listed(18) /\ Listed(19) /\ Listed(20) /\ Listed(21)
  BY <1>16, <1>17, <1>18, <1>19, <1>20, <1>21, <1>22, Zenon
<1> HIDE DEF Listed
<1>26. \A i \in 1..21 : Listed(i)
  BY <1>23, <1>24, <1>25
<1> QED
  BY <1>26, Zenon DEF Listed

\* A kind's schema names what it carries.
LEMMA KindsName ==
    ASSUME NEW D, DOMAIN TypeSchemas \subseteq D, DOMAIN ContainerSchemas \subseteq D,
           NEW n \in DOMAIN KindSchemas
    PROVE  Naming(D, KindSchemas[n])
<1> DEFINE i == CHOOSE i \in DOMAIN KindName : KindName[i] = n
<1>1. n \in Range(KindName) /\ KindSchemas[n] = Struct(TxKindFields[i])
  BY KindNames DEF KindSchemas
<1>2. i \in 1..21
  <2>1. \E j \in DOMAIN KindName : KindName[j] = n
    BY <1>1 DEF Range
  <2> QED
    BY <2>1, KindNames
<1> HIDE DEF i
<1> DEFINE fs == TxKindFields[i]
<1>3. fs \in Seq(D) /\ fs # <<>>
  BY <1>2, FieldsAre
<1> HIDE DEF fs
<1>4. Naming(D, Struct(fs))
  BY <1>3, NamingForms
<1> QED
  BY <1>1, <1>4 DEF fs

\* A type's schema names schemas.
LEMMA TypesName ==
    ASSUME NEW D, DOMAIN TypeSchemas \subseteq D, DOMAIN ContainerSchemas \subseteq D,
           DOMAIN KindSchemas \subseteq D, NEW n \in DOMAIN TypeSchemas
    PROVE  Naming(D, TypeSchemas[n])
<1>1. {
        "AlgorithmByte", "Amount", "Balances", "BlockHeader", "Bool",
        "DelayParameters", "Devices", "FinalityRung", "Hash", "HashSet",
        "Hashes", "Lane", "Lanes", "Medium", "Multiplier", "Name", "Nonce",
        "OptionCertificate", "OptionClosure", "OptionHash", "OptionLeaf",
        "OptionName", "Validity", "PayWordIndex", "Ratio", "Signature",
        "SignedHeader", "Small", "Transaction", "Transactions", "TxBody",
        "TxKind", "VerifyingKey", "Version", "Votes", "Word"} \subseteq D
  BY TypeNames, ContainerNames
<1>2. Naming(D, Hash)
  BY NamingForms DEF Hash
<1>3. Naming(D, Salt)
  BY NamingForms DEF Salt
<1>4. Naming(D, Version)
  BY NamingForms DEF Version
<1>5. Naming(D, Bool)
  BY NamingForms DEF Bool
<1>6. Naming(D, Word)
  BY NamingForms DEF Word
<1>7. Naming(D, Medium)
  BY NamingForms DEF Medium
<1>8. Naming(D, Small)
  BY NamingForms DEF Small
<1>9. Naming(D, Amount)
  BY NamingForms DEF Amount, Word
<1>10. Naming(D, Lane)
  BY NamingForms DEF Lane, Medium
<1>11. Naming(D, Ratio)
  <2> DEFINE fs == <<"Word", "Word">>
  <2>1. fs \in Seq(D) /\ fs # <<>>
    BY <1>1
  <2>2. Ratio = Struct(fs)
    BY DEF Ratio
  <2> HIDE DEF fs
  <2> QED
    BY <2>1, <2>2, NamingForms
<1>12. Naming(D, Nonce)
  <2> DEFINE fs == <<"Lane", "Word">>
  <2>1. fs \in Seq(D) /\ fs # <<>>
    BY <1>1
  <2>2. Nonce = Struct(fs)
    BY DEF Nonce
  <2> HIDE DEF fs
  <2> QED
    BY <2>1, <2>2, NamingForms
<1>13. Naming(D, AlgorithmByte)
  BY NamingForms DEF AlgorithmByte
<1>14. Naming(D, VerifyingKey)
  <2> DEFINE cases == [a \in {1, 3, 4} |-> IF a = 3 THEN "Version" ELSE "Hash"]
  <2>1. \A t \in DOMAIN cases : cases[t] \in D
    BY <1>1
  <2>2. VerifyingKey = Tagged("AlgorithmByte", cases)
    BY DEF VerifyingKey
  <2> HIDE DEF cases
  <2> QED
    BY <1>1, <2>1, <2>2, NamingForms
<1>15. Naming(D, Signature)
  <2> DEFINE cases == [a \in {1, 3, 4} |-> IF a = 1 THEN "Version" ELSE "Hash"]
  <2>1. \A t \in DOMAIN cases : cases[t] \in D
    BY <1>1
  <2>2. Signature = Tagged("AlgorithmByte", cases)
    BY DEF Signature
  <2> HIDE DEF cases
  <2> QED
    BY <1>1, <2>1, <2>2, NamingForms
<1>16. Naming(D, Name)
  BY NamingForms DEF Name
<1>17. Naming(D, Device)
  <2> DEFINE fs == <<"VerifyingKey", "Lane", "Amount", "Amount">>
  <2>1. fs \in Seq(D) /\ fs # <<>>
    BY <1>1
  <2>2. Device = Struct(fs)
    BY DEF Device
  <2> HIDE DEF fs
  <2> QED
    BY <2>1, <2>2, NamingForms
<1>18. Naming(D, Account)
  <2> DEFINE fs == <<"Balances", "Amount", "Amount", "Devices", "HashSet",
                       "Lane", "Lanes", "HashSet", "Medium", "Amount",
                       "OptionName">>
  <2>1. fs \in Seq(D) /\ fs # <<>>
    BY <1>1
  <2>2. Account = Struct(fs)
    BY DEF Account
  <2> HIDE DEF fs
  <2> QED
    BY <2>1, <2>2, NamingForms
<1>19. Naming(D, AssetRecord)
  <2> DEFINE fs == <<"Hash", "Name", "Small", "Bool", "Amount">>
  <2>1. fs \in Seq(D) /\ fs # <<>>
    BY <1>1
  <2>2. AssetRecord = Struct(fs)
    BY DEF AssetRecord
  <2> HIDE DEF fs
  <2> QED
    BY <2>1, <2>2, NamingForms
<1>20. Naming(D, CommitmentRecord)
  <2> DEFINE fs == <<"Hash", "Word">>
  <2>1. fs \in Seq(D) /\ fs # <<>>
    BY <1>1
  <2>2. CommitmentRecord = Struct(fs)
    BY DEF CommitmentRecord
  <2> HIDE DEF fs
  <2> QED
    BY <2>1, <2>2, NamingForms
<1>21. Naming(D, PendingRecovery)
  <2> DEFINE fs == <<"VerifyingKey", "HashSet", "Word", "Word">>
  <2>1. fs \in Seq(D) /\ fs # <<>>
    BY <1>1
  <2>2. PendingRecovery = Struct(fs)
    BY DEF PendingRecovery
  <2> HIDE DEF fs
  <2> QED
    BY <2>1, <2>2, NamingForms
<1>22. Naming(D, AccountOffence)
  <2> DEFINE fs == <<"Hash", "Hash", "Lane", "Word">>
  <2>1. fs \in Seq(D) /\ fs # <<>>
    BY <1>1
  <2>2. AccountOffence = Struct(fs)
    BY DEF AccountOffence
  <2> HIDE DEF fs
  <2> QED
    BY <2>1, <2>2, NamingForms
<1>23. Naming(D, ValidatorOffence)
  <2> DEFINE fs == <<"Hash", "Word">>
  <2>1. fs \in Seq(D) /\ fs # <<>>
    BY <1>1
  <2>2. ValidatorOffence = Struct(fs)
    BY DEF ValidatorOffence
  <2> HIDE DEF fs
  <2> QED
    BY <2>1, <2>2, NamingForms
<1>24. Naming(D, PendingClosure)
  <2> DEFINE fs == <<"Hash", "Medium", "Word", "Word", "Bool">>
  <2>1. fs \in Seq(D) /\ fs # <<>>
    BY <1>1
  <2>2. PendingClosure = Struct(fs)
    BY DEF PendingClosure
  <2> HIDE DEF fs
  <2> QED
    BY <2>1, <2>2, NamingForms
<1>25. Naming(D, Purse)
  <2> DEFINE fs == <<"Hash", "Hash", "OptionHash", "Amount", "Hash",
                       "Amount", "Medium", "Word", "OptionClosure">>
  <2>1. fs \in Seq(D) /\ fs # <<>>
    BY <1>1
  <2>2. Purse = Struct(fs)
    BY DEF Purse
  <2> HIDE DEF fs
  <2> QED
    BY <2>1, <2>2, NamingForms
<1>26. Naming(D, Multiplier)
  BY NamingForms DEF Multiplier
<1>27. Naming(D, ValidatorRecord)
  <2> DEFINE fs == <<"Hash", "VerifyingKey", "Amount", "Multiplier",
                       "Hash", "Hash">>
  <2>1. fs \in Seq(D) /\ fs # <<>>
    BY <1>1
  <2>2. ValidatorRecord = Struct(fs)
    BY DEF ValidatorRecord
  <2> HIDE DEF fs
  <2> QED
    BY <2>1, <2>2, NamingForms
<1>28. Naming(D, TxKind)
  <2>1. \A t \in DOMAIN KindName : KindName[t] \in D
    BY KindNames
  <2> QED
    BY <1>1, <2>1, NamingForms DEF TxKind
<1>29. Naming(D, TxBody)
  <2> DEFINE fs == <<"Version", "Hash", "Hash", "Hash", "Nonce", "Amount",
                       "Validity", "TxKind">>
  <2>1. fs \in Seq(D) /\ fs # <<>>
    BY <1>1
  <2>2. TxBody = Struct(fs)
    BY DEF TxBody
  <2> HIDE DEF fs
  <2> QED
    BY <2>1, <2>2, NamingForms
<1>30. Naming(D, Transaction)
  <2> DEFINE fs == <<"TxBody", "Signature">>
  <2>1. fs \in Seq(D) /\ fs # <<>>
    BY <1>1
  <2>2. Transaction = Struct(fs)
    BY DEF Transaction
  <2> HIDE DEF fs
  <2> QED
    BY <2>1, <2>2, NamingForms
<1>31. Naming(D, AccountEquivocation)
  <2> DEFINE fs == <<"Hash", "Transaction", "Transaction">>
  <2>1. fs \in Seq(D) /\ fs # <<>>
    BY <1>1
  <2>2. AccountEquivocation = Struct(fs)
    BY DEF AccountEquivocation
  <2> HIDE DEF fs
  <2> QED
    BY <2>1, <2>2, NamingForms
<1>32. Naming(D, FinalityRung)
  BY NamingForms DEF FinalityRung
<1>33. Naming(D, BlockHeader)
  <2> DEFINE fs == <<"Version", "Hash", "Word", "Hash", "FinalityRung",
                       "Word", "Hash", "Hash", "Hash", "Hash", "Hash",
                       "Amount", "Amount", "Ratio">>
  <2>1. fs \in Seq(D) /\ fs # <<>>
    BY <1>1
  <2>2. BlockHeader = Struct(fs)
    BY DEF BlockHeader
  <2> HIDE DEF fs
  <2> QED
    BY <2>1, <2>2, NamingForms
<1>34. Naming(D, SignedHeader)
  <2> DEFINE fs == <<"BlockHeader", "Signature">>
  <2>1. fs \in Seq(D) /\ fs # <<>>
    BY <1>1
  <2>2. SignedHeader = Struct(fs)
    BY DEF SignedHeader
  <2> HIDE DEF fs
  <2> QED
    BY <2>1, <2>2, NamingForms
<1>35. Naming(D, ValidatorEquivocation)
  <2> DEFINE fs == <<"Hash", "SignedHeader", "SignedHeader">>
  <2>1. fs \in Seq(D) /\ fs # <<>>
    BY <1>1
  <2>2. ValidatorEquivocation = Struct(fs)
    BY DEF ValidatorEquivocation
  <2> HIDE DEF fs
  <2> QED
    BY <2>1, <2>2, NamingForms
<1>36. Naming(D, Vote)
  <2> DEFINE fs == <<"Hash", "Signature">>
  <2>1. fs \in Seq(D) /\ fs # <<>>
    BY <1>1
  <2>2. Vote = Struct(fs)
    BY DEF Vote
  <2> HIDE DEF fs
  <2> QED
    BY <2>1, <2>2, NamingForms
<1>37. Naming(D, Certificate)
  <2> DEFINE fs == <<"Hash", "Votes">>
  <2>1. fs \in Seq(D) /\ fs # <<>>
    BY <1>1
  <2>2. Certificate = Struct(fs)
    BY DEF Certificate
  <2> HIDE DEF fs
  <2> QED
    BY <2>1, <2>2, NamingForms
<1>38. Naming(D, Block)
  <2> DEFINE fs == <<"SignedHeader", "Transactions", "OptionCertificate">>
  <2>1. fs \in Seq(D) /\ fs # <<>>
    BY <1>1
  <2>2. Block = Struct(fs)
    BY DEF Block
  <2> HIDE DEF fs
  <2> QED
    BY <2>1, <2>2, NamingForms
<1>39. Naming(D, PayWordIndex)
  BY NamingForms DEF PayWordIndex
<1>40. Naming(D, PayWordToken)
  <2> DEFINE fs == <<"PayWordIndex", "Hash">>
  <2>1. fs \in Seq(D) /\ fs # <<>>
    BY <1>1
  <2>2. PayWordToken = Struct(fs)
    BY DEF PayWordToken
  <2> HIDE DEF fs
  <2> QED
    BY <2>1, <2>2, NamingForms
<1>41. Naming(D, DelayParameters)
  <2> DEFINE fs == <<"Word", "Medium">>
             values == {p \in (1 .. U64 - 1) \X (1 .. MaxSegments) : p[1] % p[2] = 0}
  <2>1. fs \in Seq(D) /\ fs # <<>>
    BY <1>1
  <2>2. DelayParameters = Checked(fs, values)
    BY DEF DelayParameters
  <2> HIDE DEF fs, values
  <2> QED
    BY <2>1, <2>2, NamingForms
<1>42. Naming(D, DelayProof)
  <2> DEFINE fs == <<"DelayParameters", "Hashes">>
  <2>1. fs \in Seq(D) /\ fs # <<>>
    BY <1>1
  <2>2. DelayProof = Struct(fs)
    BY DEF DelayProof
  <2> HIDE DEF fs
  <2> QED
    BY <2>1, <2>2, NamingForms
<1>43. Naming(D, SmtLeaf)
  <2> DEFINE fs == <<"Hash", "Hash">>
  <2>1. fs \in Seq(D) /\ fs # <<>>
    BY <1>1
  <2>2. SmtLeaf = Struct(fs)
    BY DEF SmtLeaf
  <2> HIDE DEF fs
  <2> QED
    BY <2>1, <2>2, NamingForms
<1>44. Naming(D, SmtProof)
  <2> DEFINE fs == <<"Hashes", "OptionLeaf">>
  <2>1. fs \in Seq(D) /\ fs # <<>>
    BY <1>1
  <2>2. SmtProof = Checked(fs, BoundedSeq(Digests, MaxSiblings) \X BoundedSeq(Digests \X Digests, 1))
    BY DEF SmtProof
  <2> HIDE DEF fs
  <2> QED
    BY <2>1, <2>2, NamingForms
<1>45. TypeSchemas[n] \in
         {
          Hash, Salt, Version, Bool, Word, Medium, Small, Amount, Lane,
          Ratio, Nonce, AlgorithmByte, VerifyingKey, Signature, Name,
          Device, Account, AssetRecord, CommitmentRecord, PendingRecovery,
          AccountOffence, ValidatorOffence, PendingClosure, Purse,
          Multiplier, ValidatorRecord, TxKind, TxBody, Transaction,
          AccountEquivocation, FinalityRung, BlockHeader, SignedHeader,
          ValidatorEquivocation, Vote, Certificate, Block, PayWordIndex,
          PayWordToken, DelayParameters, DelayProof, SmtLeaf, SmtProof}
  BY TypeNames DEF TypeSchemas
<1> QED
  BY <1>2, <1>3, <1>4, <1>5, <1>6, <1>7, <1>8, <1>9, <1>10, <1>11, <1>12,
     <1>13, <1>14, <1>15, <1>16, <1>17, <1>18, <1>19, <1>20, <1>21, <1>22,
     <1>23, <1>24, <1>25, <1>26, <1>27, <1>28, <1>29, <1>30, <1>31, <1>32,
     <1>33, <1>34, <1>35, <1>36, <1>37, <1>38, <1>39, <1>40, <1>41, <1>42,
     <1>43, <1>44, <1>45

\* A container's schema names schemas.
LEMMA ContainersName ==
    ASSUME NEW D, DOMAIN TypeSchemas \subseteq D, DOMAIN ContainerSchemas \subseteq D,
           NEW n \in DOMAIN ContainerSchemas
    PROVE  Naming(D, ContainerSchemas[n])
<1>1. {
        "AccountEquivocation", "Amount", "Balance", "Certificate", "Device",
        "DeviceEntry", "Hash", "Lane", "LaneEntry", "Name", "OptionHash",
        "PendingClosure", "SmtLeaf", "Transaction", "ValidatorEquivocation",
        "Vote", "Word"} \subseteq D
  BY TypeNames, ContainerNames
<1>2. ContainerSchemas["OptionHash"] = Option("Hash")
  BY DEF ContainerSchemas
<1>3. Naming(D, Option("Hash"))
  BY <1>1, NamingForms
<1>4. ContainerSchemas["Validity"] = OptionHere("Word")
  BY DEF ContainerSchemas
<1>5. Naming(D, OptionHere("Word"))
  BY <1>1, NamingForms
<1>6. ContainerSchemas["OptionName"] = Option("Name")
  BY DEF ContainerSchemas
<1>7. Naming(D, Option("Name"))
  BY <1>1, NamingForms
<1>8. ContainerSchemas["OptionClosure"] = Option("PendingClosure")
  BY DEF ContainerSchemas
<1>9. Naming(D, Option("PendingClosure"))
  BY <1>1, NamingForms
<1>10. ContainerSchemas["OptionCertificate"] = Option("Certificate")
  BY DEF ContainerSchemas
<1>11. Naming(D, Option("Certificate"))
  BY <1>1, NamingForms
<1>12. ContainerSchemas["OptionLeaf"] = Option("SmtLeaf")
  BY DEF ContainerSchemas
<1>13. Naming(D, Option("SmtLeaf"))
  BY <1>1, NamingForms
<1>14. ContainerSchemas["Hashes"] = Seqs("Hash")
  BY DEF ContainerSchemas
<1>15. Naming(D, Seqs("Hash"))
  BY <1>1, NamingForms
<1>16. ContainerSchemas["HashSet"] = Sets("Hash")
  BY DEF ContainerSchemas
<1>17. Naming(D, Sets("Hash"))
  BY <1>1, NamingForms
<1>18. ContainerSchemas["Votes"] = Seqs("Vote")
  BY DEF ContainerSchemas
<1>19. Naming(D, Seqs("Vote"))
  BY <1>1, NamingForms
<1>20. ContainerSchemas["Transactions"] = Seqs("Transaction")
  BY DEF ContainerSchemas
<1>21. Naming(D, Seqs("Transaction"))
  BY <1>1, NamingForms
<1>22. ContainerSchemas["Balance"] = Struct(<<"OptionHash", "Amount">>)
  BY DEF ContainerSchemas
<1>23. Naming(D, Struct(<<"OptionHash", "Amount">>))
  <2> DEFINE fs == <<"OptionHash", "Amount">>
  <2>1. fs \in Seq(D) /\ fs # <<>>
    BY <1>1
  <2> HIDE DEF fs
  <2>2. Naming(D, Struct(fs))
    BY <2>1, NamingForms
  <2> QED
    BY <2>2 DEF fs
<1>24. ContainerSchemas["Balances"] = Map("optional key", "Balance")
  BY DEF ContainerSchemas
<1>25. Naming(D, Map("optional key", "Balance"))
  BY <1>1, NamingForms
<1>26. ContainerSchemas["DeviceEntry"] = Struct(<<"Hash", "Device">>)
  BY DEF ContainerSchemas
<1>27. Naming(D, Struct(<<"Hash", "Device">>))
  <2> DEFINE fs == <<"Hash", "Device">>
  <2>1. fs \in Seq(D) /\ fs # <<>>
    BY <1>1
  <2> HIDE DEF fs
  <2>2. Naming(D, Struct(fs))
    BY <2>1, NamingForms
  <2> QED
    BY <2>2 DEF fs
<1>28. ContainerSchemas["Devices"] = Map("byte key", "DeviceEntry")
  BY DEF ContainerSchemas
<1>29. Naming(D, Map("byte key", "DeviceEntry"))
  BY <1>1, NamingForms
<1>30. ContainerSchemas["LaneEntry"] = Struct(<<"Lane", "Word">>)
  BY DEF ContainerSchemas
<1>31. Naming(D, Struct(<<"Lane", "Word">>))
  <2> DEFINE fs == <<"Lane", "Word">>
  <2>1. fs \in Seq(D) /\ fs # <<>>
    BY <1>1
  <2> HIDE DEF fs
  <2>2. Naming(D, Struct(fs))
    BY <2>1, NamingForms
  <2> QED
    BY <2>2 DEF fs
<1>32. ContainerSchemas["Lanes"] = Map("number key", "LaneEntry")
  BY DEF ContainerSchemas
<1>33. Naming(D, Map("number key", "LaneEntry"))
  BY <1>1, NamingForms
<1>34. ContainerSchemas["NestedAccountEquivocation"] = Nested("AccountEquivocation")
  BY DEF ContainerSchemas
<1>35. Naming(D, Nested("AccountEquivocation"))
  BY <1>1, NamingForms
<1>36. ContainerSchemas["NestedValidatorEquivocation"] = Nested("ValidatorEquivocation")
  BY DEF ContainerSchemas
<1>37. Naming(D, Nested("ValidatorEquivocation"))
  BY <1>1, NamingForms
<1> QED
  BY ContainerNames, <1>2, <1>3, <1>4, <1>5, <1>6, <1>7, <1>8, <1>9, <1>10, <1>11, <1>12,
     <1>13, <1>14, <1>15, <1>16, <1>17, <1>18, <1>19, <1>20, <1>21, <1>22,
     <1>23, <1>24, <1>25, <1>26, <1>27, <1>28, <1>29, <1>30, <1>31, <1>32,
     <1>33, <1>34, <1>35, <1>36, <1>37

\* The schemas of the protocol name one another.
LEMMA SchemaIsWellNamed == WellNamed(Schema)
<1> DEFINE D == DOMAIN Schema
<1>1. /\ D = DOMAIN KindSchemas \cup DOMAIN TypeSchemas \cup DOMAIN ContainerSchemas
      /\ \A n \in D : Schema[n] = IF n \in DOMAIN KindSchemas THEN KindSchemas[n]
                                  ELSE IF n \in DOMAIN TypeSchemas THEN TypeSchemas[n]
                                  ELSE ContainerSchemas[n]
  BY DEF Schema
<1>2. "byte" \notin D
  <2>1. "byte" \notin DOMAIN KindSchemas
    BY KindNames DEF Range, KindName
  <2> QED
    BY <1>1, <2>1, TypeNames, ContainerNames
<1> HIDE DEF D
<1>3. ASSUME NEW n \in D
      PROVE  Naming(D, Schema[n])
  <2>1. CASE n \in DOMAIN KindSchemas
    BY <1>1, <2>1, KindsName
  <2>2. CASE n \notin DOMAIN KindSchemas /\ n \in DOMAIN TypeSchemas
    BY <1>1, <2>2, TypesName
  <2>3. CASE n \notin DOMAIN KindSchemas /\ n \notin DOMAIN TypeSchemas
    BY <1>1, <2>3, ContainersName
  <2> QED
    BY <2>1, <2>2, <2>3
<1> QED
  BY <1>2, <1>3 DEF D, Naming, WellNamed

\* What travels as a whole has a schema.
LEMMA ObjectsHaveSchemas == Objects \subseteq DOMAIN Schema /\ "none" \notin Objects
<1>1. "TxKind" \in DOMAIN TypeSchemas /\ Objects \subseteq DOMAIN TypeSchemas \cup DOMAIN ContainerSchemas
  BY TypeNames, ContainerNames DEF Objects
<1> QED
  BY <1>1 DEF Schema, Objects

----------------------------------------------------------------------------
(* An object altered on its way. *)

WireSpec == WireInit /\ [][WireNext]_wireVars

\* The inductive invariant: what travels is bytes, and before it is altered
\* the encoding of what was sent.
WireInv ==
    /\ schema \in Objects \cup {"none"}
    /\ wire \in Seq(Byte) /\ edits \in Nat
    /\ schema # "none" /\ edits = 0 =>
          sent \in Samples(schema) /\ wire = Written(Schema, schema, sent)

\* A sent value is bytes, and decodes to itself.
LEMMA SentDecodes ==
    ASSUME NEW name \in Objects, NEW v \in Samples(name)
    PROVE  /\ Written(Schema, name, v) \in Seq(Byte)
           /\ Decoded(Schema, name, Written(Schema, name, v)) = {v}
<1>1. IsValue(Schema, name, v) /\ Len(Written(Schema, name, v)) <= MaxObject
  BY SamplesAssumption
<1> DEFINE types == Schema
<1>2. WellNamed(types) /\ name \in DOMAIN types
  BY SchemaIsWellNamed, ObjectsHaveSchemas
<1>3. IsValue(types, name, v) /\ Len(Written(types, name, v)) <= MaxObject
  BY <1>1
<1> HIDE DEF types
<1>4. /\ Written(types, name, v) \in Seq(Byte)
      /\ Decoded(types, name, Written(types, name, v)) = {v}
  BY <1>2, <1>3, WrittenIsDecoded
<1> QED
  BY <1>4 DEF types

\* The invariant is where the wire starts.
LEMMA WireInvInit == WireInit => WireInv
BY DEF WireInit, WireInv

\* No step of the wire breaks it.
LEMMA WireInvNext == WireInv /\ [WireNext]_wireVars => WireInv'
<1> SUFFICES ASSUME WireInv, [WireNext]_wireVars
             PROVE  WireInv'
  OBVIOUS
<1>1. wire \in Seq(Byte) /\ edits \in Nat /\ schema \in Objects \cup {"none"}
  BY DEF WireInv
<1>2. ASSUME NEW name \in Objects, Send(name)
      PROVE  WireInv'
  <2>1. PICK v \in Samples(name) : sent' = v /\ wire' = Written(Schema, name, v)
    BY <1>2 DEF Send
  <2>2. schema' = name /\ edits' = edits
    BY <1>2 DEF Send
  <2>3. wire' \in Seq(Byte)
    BY <2>1, SentDecodes
  <2> QED
    BY <1>1, <2>1, <2>2, <2>3 DEF WireInv
<1>3. ASSUME MayAlter, wire' \in Seq(Byte)
      PROVE  WireInv'
  <2>1. schema' = schema /\ edits' = edits + 1 /\ edits' # 0 /\ edits' \in Nat
    BY <1>1, <1>3 DEF MayAlter
  <2> QED
    BY <1>1, <1>3, <2>1 DEF WireInv
<1>4. CASE ReplaceByte
  <2>1. MayAlter /\ \E i \in DOMAIN wire, c \in Byte : wire' = [wire EXCEPT ![i] = c]
    BY <1>4 DEF ReplaceByte
  <2>2. PICK i \in DOMAIN wire, c \in Byte : wire' = [wire EXCEPT ![i] = c]
    BY <2>1
  <2>3. wire' \in Seq(Byte)
    BY <1>1, <2>2
  <2> QED
    BY <1>3, <2>1, <2>3
<1>5. CASE InsertByte
  <2>1. PICK i \in 1..(Len(wire) + 1), c \in Byte : wire' = InsertAt(wire, i, c)
    BY <1>5 DEF InsertByte
  <2> DEFINE x == SubSeq(wire, 1, i - 1)
             y == SubSeq(wire, i, Len(wire))
             o == <<c>>
  <2>2. Len(wire) \in Nat /\ i \in Nat /\ i >= 1 /\ i - 1 <= Len(wire)
    BY <1>1
  <2>3. x \in Seq(Byte) /\ y \in Seq(Byte) /\ o \in Seq(Byte)
    <3>1. x \in Seq(Byte)
      <4>1. \A j \in 1..(i - 1) : j \in 1..Len(wire)
        BY <2>2
      <4> QED
        BY <1>1, <2>2, <4>1, SubSeqProperties
    <3>2. y \in Seq(Byte)
      BY <1>1, <2>2, SubSeqProperties
    <3> QED
      BY <3>1, <3>2
  <2>4. wire' = (x \o o) \o y
    BY <2>1 DEF InsertAt
  <2> HIDE DEF x, y, o
  <2>5. wire' \in Seq(Byte)
    BY <2>3, <2>4, ConcatProperties
  <2> QED
    BY <1>3, <1>5, <2>5 DEF InsertByte
<1>6. CASE DropByte
  <2>1. PICK i \in DOMAIN wire : wire' = RemoveAt(wire, i)
    BY <1>6 DEF DropByte
  <2> DEFINE x == SubSeq(wire, 1, i - 1)
             y == SubSeq(wire, i + 1, Len(wire))
  <2>2. Len(wire) \in Nat /\ i \in 1..Len(wire)
    BY <1>1
  <2>3. x \in Seq(Byte) /\ y \in Seq(Byte)
    BY <1>1, <2>2, SubSeqProperties
  <2>4. wire' = x \o y
    BY <2>1 DEF RemoveAt
  <2> HIDE DEF x, y
  <2>5. wire' \in Seq(Byte)
    BY <2>3, <2>4, ConcatProperties
  <2> QED
    BY <1>3, <1>6, <2>5 DEF DropByte
<1>7. CASE UNCHANGED wireVars
  BY <1>7 DEF WireInv, wireVars
<1> QED
  BY <1>2, <1>4, <1>5, <1>6, <1>7 DEF WireNext

\* The invariant is enough.
LEMMA WireInvGivesProperty == WireInv => CanonicalEncoding
<1> SUFFICES ASSUME WireInv, schema # "none"
             PROVE  /\ edits = 0 => Decoded(Schema, schema, wire) = {sent}
                    /\ \A v \in Decoded(Schema, schema, wire) : Written(Schema, schema, v) = wire
  BY DEF CanonicalEncoding
<1>1. schema \in Objects /\ wire \in Seq(Byte)
  BY DEF WireInv
<1>2. edits = 0 => Decoded(Schema, schema, wire) = {sent}
  BY <1>1, SentDecodes DEF WireInv
<1>3. \A v \in Decoded(Schema, schema, wire) : Written(Schema, schema, v) = wire
  <2> DEFINE types == Schema
             name == schema
             b == wire
  <2>1. WellNamed(types) /\ name \in DOMAIN types /\ b \in Seq(Byte)
    BY <1>1, SchemaIsWellNamed, ObjectsHaveSchemas
  <2> HIDE DEF types, name, b
  <2>2. \A v \in Decoded(types, name, b) : Written(types, name, v) = b
    BY <2>1, DecodedIsWritten
  <2> QED
    BY <2>2 DEF types, name, b
<1> QED
  BY <1>2, <1>3

\* Bijectivity, for any values sent, any limits of the decoder and any number
\* of altered bytes: an object arrives as it was sent, and what an altered
\* encoding decodes to is a value whose only encoding it is (codec.rs).
THEOREM EncodingIsCanonical == WireSpec => []CanonicalEncoding
<1>1. WireInit => WireInv
  BY WireInvInit
<1>2. WireInv /\ [WireNext]_wireVars => WireInv'
  BY WireInvNext
<1>3. WireInv => CanonicalEncoding
  BY WireInvGivesProperty
<1> QED
  BY <1>1, <1>2, <1>3, PTL DEF WireSpec
=============================================================================
