--------------------------- MODULE ExchangeProofs ---------------------------
(* The checks of Exchange, and the exchange as a whole.  Evidence convicts   *)
(* those that signed two bodies for one slot, and only them, for any number  *)
(* of chains, accounts, devices and transactions.  The full check of a delay *)
(* proof accepts the whole evaluation of this epoch's mix and nothing else,  *)
(* and the sampled check lets a prover that skipped segments through under   *)
(* the share of challenges the code claims, for any schedule, any number of  *)
(* proposers and samples and whatever the prover skipped or began from.  An  *)
(* inclusion proof is accepted of what the block lists and a state proof of  *)
(* what the tree holds, whatever steps somebody put together, and a root has *)
(* one preimage, for lists of any length and keys of any depth.              *)
EXTENDS Exchange, WireProofs,
        SumTheorems, SequenceTheorems, FiniteSetTheorems, TLAPS

----------------------------------------------------------------------------
(* Evidence. *)

EvidenceSpec == EvidenceInit /\ [][EvidenceNext]_evidenceVars

Payments(slot) == {b \in BodiesOf(slot) : b.kind \notin EvidenceKinds}

\* Two different payments were signed for one slot of the device.
DoubleSigned(account, device) ==
    \E t, u \in signed :
        /\ t.body # u.body
        /\ SlotOf(t.body) = SlotOf(u.body)
        /\ t.body.kind \notin EvidenceKinds /\ u.body.kind \notin EvidenceKinds
        /\ t.body.account = account /\ t.body.device = device

\* Every transaction is a body with the signature of a device its account knows.
WellSigned ==
    \A t \in signed :
        /\ t.body \in TransactionBody
        /\ t.body.device \in RegisteredOn[t.body.account]
        /\ VerifyTransaction(t, t.body.device)

SignedBodies == {t.body : t \in signed}

\* The inductive invariant.
EvidenceInv ==
    /\ WellSigned
    /\ IsFiniteSet(SignedBodies)
    /\ \A c \in convicted : \E account \in AccountIds, device \in DeviceKeys :
          c = <<account, device>> /\ DoubleSigned(account, device)

----------------------------------------------------------------------------

\* A finite set has more than one element exactly when two of its elements differ.
LEMMA TwoElements ==
    ASSUME NEW S, IsFiniteSet(S)
    PROVE  Cardinality(S) > 1 <=> \E x, y \in S : x # y
<1>1. Cardinality(S) \in Nat
  BY FS_CardinalityType
<1>2. Cardinality(S) = 0 <=> S = {}
  BY FS_EmptySet
<1>3. Cardinality(S) = 1 <=> \E x : S = {x}
  BY FS_Singleton
<1>4. CASE \E x, y \in S : x # y
  <2>1. S # {} /\ ~\E x : S = {x}
    BY <1>4
  <2> QED
    BY <1>1, <1>2, <1>3, <1>4, <2>1
<1>5. CASE ~\E x, y \in S : x # y
  <2>1. S = {} \/ \E x : S = {x}
    <3>1. CASE S # {}
      <4>1. PICK x \in S : TRUE
        BY <3>1
      <4>2. S = {x}
        BY <1>5, <4>1
      <4> QED
        BY <4>2
    <3> QED
      BY <3>1
  <2>2. Cardinality(S) = 0 \/ Cardinality(S) = 1
    BY <1>2, <1>3, <2>1, Zenon
  <2>3. ~(Cardinality(S) > 1)
    BY <2>2
  <2> QED
    BY <1>5, <2>3, Zenon
<1> QED
  BY <1>4, <1>5

\* Two different things that were signed for one slot are two payments of it.
LEMMA PaymentsOfASlot ==
    ASSUME IsFiniteSet(SignedBodies), NEW t \in signed
    PROVE  Cardinality(Payments(SlotOf(t.body))) > 1 =>
             DoubleSigned(t.body.account, t.body.device)
<1> DEFINE P == Payments(SlotOf(t.body))
<1>1. P \subseteq SignedBodies
  BY DEF Payments, BodiesOf, SignedBodies
<1>2. IsFiniteSet(P)
  BY <1>1, FS_Subset
<1> HAVE Cardinality(P) > 1
<1>3. PICK b \in P, c \in P : b # c
  BY <1>2, TwoElements
<1>4. PICK u \in signed, v \in signed : u.body = b /\ v.body = c
  BY <1>3 DEF Payments, BodiesOf
<1>5. /\ SlotOf(u.body) = SlotOf(t.body) /\ SlotOf(v.body) = SlotOf(t.body)
      /\ u.body.kind \notin EvidenceKinds /\ v.body.kind \notin EvidenceKinds
  BY <1>3, <1>4 DEF Payments, BodiesOf
<1>6. u.body.account = t.body.account /\ u.body.device = t.body.device
  BY <1>5 DEF SlotOf
<1> QED
  BY <1>3, <1>4, <1>5, <1>6 DEF DoubleSigned

\* And the other way round.
LEMMA DoubleSignedPayments ==
    ASSUME IsFiniteSet(SignedBodies), NEW account, NEW device, DoubleSigned(account, device)
    PROVE  \E t \in signed :
             /\ t.body.account = account /\ t.body.device = device
             /\ Cardinality(Payments(SlotOf(t.body))) > 1
<1>1. PICK t \in signed, u \in signed :
        /\ t.body # u.body
        /\ SlotOf(t.body) = SlotOf(u.body)
        /\ t.body.kind \notin EvidenceKinds /\ u.body.kind \notin EvidenceKinds
        /\ t.body.account = account /\ t.body.device = device
  BY DEF DoubleSigned
<1> DEFINE P == Payments(SlotOf(t.body))
<1>2. t.body \in P /\ u.body \in P
  BY <1>1 DEF Payments, BodiesOf
<1>3. P \subseteq SignedBodies
  BY DEF Payments, BodiesOf, SignedBodies
<1>4. IsFiniteSet(P)
  BY <1>3, FS_Subset
<1>5. Cardinality(P) > 1
  BY <1>1, <1>2, <1>4, TwoElements
<1> QED
  BY <1>1, <1>5

\* Whatever convicts was signed twice for one slot by the device it names.
LEMMA ConvictsDoubleSigners ==
    ASSUME WellSigned, NEW device, NEW first \in signed, NEW second \in signed,
           Convicts(device, first, second)
    PROVE  DoubleSigned(first.body.account, device)
<1>1. first.body # second.body
  BY DEF Convicts, IsAccountEquivocation, TransactionId
<1>2. SlotOf(first.body) = SlotOf(second.body)
  BY DEF Convicts, IsAccountEquivocation, CollidesWith, SlotOf
<1> QED
  BY <1>1, <1>2 DEF Convicts, IsAccountEquivocation, DoubleSigned

\* And whoever signed twice for one slot can be convicted.
LEMMA DoubleSignersConvicted ==
    ASSUME WellSigned, NEW account, NEW device, DoubleSigned(account, device)
    PROVE  \E first, second \in signed :
             first.body.account = account /\ Convicts(device, first, second)
<1>1. PICK t \in signed, u \in signed :
        /\ t.body # u.body
        /\ SlotOf(t.body) = SlotOf(u.body)
        /\ t.body.kind \notin EvidenceKinds /\ u.body.kind \notin EvidenceKinds
        /\ t.body.account = account /\ t.body.device = device
  BY DEF DoubleSigned
<1>2. /\ t.body.chain = u.body.chain /\ t.body.account = u.body.account
      /\ u.body.device = device /\ CollidesWith(t.body, u.body)
  BY <1>1 DEF SlotOf, CollidesWith
<1>3. TransactionId(t.body) # TransactionId(u.body)
  BY <1>1 DEF TransactionId
<1>4. /\ VerifyTransaction(t, device) /\ VerifyTransaction(u, device)
      /\ device \in RegisteredOn[t.body.account]
  BY <1>1, <1>2 DEF WellSigned
<1>5. Convicts(device, t, u)
  BY <1>1, <1>2, <1>3, <1>4 DEF Convicts, IsAccountEquivocation
<1> QED
  BY <1>1, <1>5

\* What is signed twice stays so, whatever is signed later.
LEMMA DoubleSignedStays ==
    ASSUME signed \subseteq signed', NEW account, NEW device, DoubleSigned(account, device)
    PROVE  DoubleSigned(account, device)'
  BY DEF DoubleSigned, SlotOf

\* Signing one more well-formed transaction keeps the invariant.
LEMMA OneMoreSigned ==
    ASSUME EvidenceInv, NEW key \in DeviceKeys, NEW body \in TransactionBody,
           NEW hedge \in {0, 1},
           body.device = key, key \in RegisteredOn[body.account],
           signed' = signed \cup {Sign(key, body, hedge)}, UNCHANGED convicted
    PROVE  EvidenceInv'
<1> DEFINE t == Sign(key, body, hedge)
<1>1. t.body = body /\ t.signature.by = key /\ t.signature.over = SigningDigest(body)
  BY DEF Sign
<1>2. WellSigned'
  BY <1>1 DEF EvidenceInv, WellSigned, VerifyTransaction, SigningDigest, TransactionId
<1>4. IsFiniteSet(SignedBodies)'
  <2>1. SignedBodies' = SignedBodies \cup {body}
    BY <1>1 DEF SignedBodies
  <2> QED
    BY <2>1, FS_AddElement DEF EvidenceInv
<1>5. \A c \in convicted' : \E account \in AccountIds, device \in DeviceKeys :
        c = <<account, device>> /\ DoubleSigned(account, device)'
  BY DoubleSignedStays DEF EvidenceInv
<1> QED
  BY <1>2, <1>4, <1>5 DEF EvidenceInv

----------------------------------------------------------------------------

\* Nothing is signed and nobody convicted at the start.
LEMMA InvInit == EvidenceInit => EvidenceInv
  BY FS_EmptySet DEF EvidenceInit, EvidenceInv, WellSigned, SignedBodies

\* Signing and convicting keep the invariant.
LEMMA InvNext == EvidenceInv /\ [EvidenceNext]_evidenceVars => EvidenceInv'
<1> SUFFICES ASSUME EvidenceInv, [EvidenceNext]_evidenceVars
             PROVE  EvidenceInv'
  OBVIOUS
<1>1. ASSUME NEW chain \in Chains, NEW account \in AccountIds, NEW key \in DeviceKeys,
             NEW kind \in Kinds, SignNext(chain, account, key, kind)
      PROVE  EvidenceInv'
  <2> DEFINE slotBody(n) == [chain |-> chain, account |-> account, device |-> key, lane |-> key,
                             sequence |-> n, kind |-> kind]
             used == {n \in 0 .. MaxSequence : BodiesOf(SlotOf(slotBody(n))) # {}}
             body == slotBody(Cardinality(used))
  <2>1. IsFiniteSet(used)
    <3>1. IsFiniteSet(0 .. MaxSequence)
      BY FS_Interval, EvidenceAssumption
    <3> QED
      BY <3>1, FS_Subset
  <2>2. Cardinality(used) \in Nat
    BY <2>1, FS_CardinalityType
  <2> HIDE DEF used
  <2>3. /\ Cardinality(used) <= MaxSequence /\ key \in RegisteredOn[account]
        /\ signed' = signed \cup {Sign(key, body, 0)} /\ UNCHANGED convicted
    BY <1>1 DEF SignNext, used
  <2>4. body \in TransactionBody
    BY <2>2, <2>3, EvidenceAssumption DEF TransactionBody
  <2> QED
    BY <2>3, <2>4, OneMoreSigned
<1>2. ASSUME SignAgain
      PROVE  EvidenceInv'
  <2>1. PICK tx \in signed : signed' = signed \cup {Sign(tx.signature.by, tx.body, 1)}
    BY <1>2 DEF SignAgain
  <2>2. /\ tx.body \in TransactionBody /\ tx.body.device = tx.signature.by
        /\ tx.signature.by \in RegisteredOn[tx.body.account] /\ tx.signature.by \in DeviceKeys
    BY DEF EvidenceInv, WellSigned, VerifyTransaction, TransactionBody
  <2>3. UNCHANGED convicted
    BY <1>2 DEF SignAgain
  <2> QED
    BY <2>1, <2>2, <2>3, OneMoreSigned
<1>3. ASSUME NEW kind \in Kinds, SignAnother(kind)
      PROVE  EvidenceInv'
  <2>1. PICK tx \in signed :
          signed' = signed \cup {Sign(tx.signature.by, [tx.body EXCEPT !.kind = kind], 0)}
    BY <1>3 DEF SignAnother
  <2>2. /\ tx.body \in TransactionBody /\ tx.body.device = tx.signature.by
        /\ tx.signature.by \in RegisteredOn[tx.body.account] /\ tx.signature.by \in DeviceKeys
    BY DEF EvidenceInv, WellSigned, VerifyTransaction, TransactionBody
  <2> DEFINE body == [tx.body EXCEPT !.kind = kind]
  <2>3. /\ body \in TransactionBody
        /\ body.device = tx.body.device /\ body.account = tx.body.account
    BY <2>2 DEF TransactionBody
  <2>4. UNCHANGED convicted
    BY <1>3 DEF SignAnother
  <2> QED
    BY <2>1, <2>2, <2>3, <2>4, OneMoreSigned
<1>4. ASSUME NEW device \in DeviceKeys, Denounce(device)
      PROVE  EvidenceInv'
  <2>1. PICK first \in signed, second \in signed :
          /\ Convicts(device, first, second)
          /\ convicted' = convicted \cup {<<first.body.account, device>>}
          /\ UNCHANGED signed
    BY <1>4 DEF Denounce
  <2>2. DoubleSigned(first.body.account, device) /\ first.body.account \in AccountIds
    BY <2>1, ConvictsDoubleSigners DEF EvidenceInv, WellSigned, TransactionBody
  <2>3. \A c \in convicted' : \E a \in AccountIds, d \in DeviceKeys :
          c = <<a, d>> /\ DoubleSigned(a, d)
    BY <2>1, <2>2 DEF EvidenceInv
  <2> QED
    BY <2>1, <2>3 DEF EvidenceInv, WellSigned, SignedBodies, DoubleSigned
<1>5. ASSUME UNCHANGED evidenceVars
      PROVE  EvidenceInv'
  BY <1>5 DEF evidenceVars, EvidenceInv, WellSigned, SignedBodies, DoubleSigned
<1> QED
  BY <1>1, <1>2, <1>3, <1>4, <1>5 DEF EvidenceNext

\* The invariant gives the property: `twice` are those that double-signed.
LEMMA InvGivesProperty == EvidenceInv => OnlyDoubleSignersAreConvicted
<1> SUFFICES ASSUME EvidenceInv
             PROVE  OnlyDoubleSignersAreConvicted
  OBVIOUS
<1> DEFINE twice == {<<t.body.account, t.body.device>> :
                       t \in {t \in signed : Cardinality(Payments(SlotOf(t.body))) > 1}}
<1>1. convicted \subseteq twice
  <2> SUFFICES ASSUME NEW c \in convicted
               PROVE  c \in twice
    OBVIOUS
  <2>1. PICK account \in AccountIds, device \in DeviceKeys :
          c = <<account, device>> /\ DoubleSigned(account, device)
    BY DEF EvidenceInv
  <2>2. PICK t \in signed :
          /\ t.body.account = account /\ t.body.device = device
          /\ Cardinality(Payments(SlotOf(t.body))) > 1
    BY <2>1, DoubleSignedPayments DEF EvidenceInv
  <2> QED
    BY <2>1, <2>2
<1>2. ASSUME NEW account \in AccountIds, NEW device \in DeviceKeys, <<account, device>> \in twice
      PROVE  \E first, second \in signed :
               first.body.account = account /\ Convicts(device, first, second)
  <2>1. PICK t \in signed :
          /\ <<account, device>> = <<t.body.account, t.body.device>>
          /\ Cardinality(Payments(SlotOf(t.body))) > 1
    BY <1>2
  <2>2. DoubleSigned(account, device)
    BY <2>1, PaymentsOfASlot DEF EvidenceInv
  <2> QED
    BY <2>2, DoubleSignersConvicted DEF EvidenceInv
<1> QED
  BY <1>1, <1>2 DEF OnlyDoubleSignersAreConvicted, Payments

\* Nobody is convicted for honest business, and whoever signs two payments for
\* one slot can be (AccountEquivocation::check, punish_account_equivocation).
THEOREM ConvictionsAreDeserved == EvidenceSpec => []OnlyDoubleSignersAreConvicted
<1>1. EvidenceInit => EvidenceInv
  BY InvInit
<1>2. EvidenceInv /\ [EvidenceNext]_evidenceVars => EvidenceInv'
  BY InvNext
<1>3. EvidenceInv => OnlyDoubleSignersAreConvicted
  BY InvGivesProperty
<1> QED
  BY <1>1, <1>2, <1>3, PTL DEF EvidenceSpec

----------------------------------------------------------------------------
(* Delay proofs. *)

DelaySpec == DelayInit /\ [][DelayNext]_delayVars

\* The prover began at this epoch's mix, took one checkpoint per segment, and
\* skipped none.
Evaluated(p) ==
    /\ Len(p.checkpoints) = p.segments + 1
    /\ p.checkpoints[1] = Input
    /\ skipped = {}

\* Where a value can come from: a mix, or a prover that made it up.
Mixes == UNION {{Mix(epoch, revealed) : revealed \in SUBSET Range(Proposers)} : epoch \in Epochs}
Origins == {mix.origin : mix \in Mixes} \cup {<<"made up", n>> : n \in Nat}

Values == [origin : Origins, steps : Nat]

WellFormed(p) ==
    /\ p \in [iterations : Nat, segments : Nat \ {0}, checkpoints : Seq(Values)]
    /\ SegmentLength(p) \in Nat \ {0}
    /\ p.iterations = p.segments * SegmentLength(p)
    /\ Len(p.checkpoints) > 0

\* Each segment was computed from the checkpoint before it, or made up.
Recorded(p) ==
    \A i \in 0 .. (Len(p.checkpoints) - 2) :
       IF i \in skipped THEN p.checkpoints[i + 2].steps = 0
       ELSE p.checkpoints[i + 2] = Iterate(p.checkpoints[i + 1], SegmentLength(p))

\* With none made up, the last checkpoint is as many steps on as it should be.
Arrived(p) ==
    skipped = {} =>
       Last(p.checkpoints) =
          Iterate(p.checkpoints[1], (Len(p.checkpoints) - 1) * SegmentLength(p))

\* The inductive invariant.
DelayInv ==
    /\ proof = {} => skipped = {}
    /\ \A p \in proof :
          /\ WellFormed(p) /\ Recorded(p) /\ Arrived(p)
          /\ skipped \subseteq 0 .. (Len(p.checkpoints) - 2)

----------------------------------------------------------------------------

\* A schedule the decoder accepts has equal segments of at least one step.
LEMMA EqualSegments ==
    ASSUME NEW schedule \in Schedules, LegalParameters(schedule)
    PROVE  /\ schedule[1] \in Nat /\ schedule[2] \in Nat \ {0}
           /\ schedule[1] \div schedule[2] \in Nat \ {0}
           /\ schedule[1] = schedule[2] * (schedule[1] \div schedule[2])
<1>1. /\ schedule[1] \in Nat \ {0} /\ schedule[2] \in Nat \ {0}
      /\ schedule[1] % schedule[2] = 0
  BY DelayAssumption DEF LegalParameters
<1>2. ASSUME NEW n \in Nat \ {0}, NEW k \in Nat \ {0}, n % k = 0
      PROVE  n \div k \in Nat \ {0} /\ n = k * (n \div k)
  <2>1. n = k * (n \div k) + (n % k) /\ n \div k \in Nat
    OBVIOUS
  <2>2. n = k * (n \div k)
    BY <1>2, <2>1
  <2>3. n \div k # 0
    BY <2>2
  <2> QED
    BY <2>1, <2>2, <2>3
<1> QED
  BY <1>1, <1>2

\* Mixes and made-up values are values, with no steps behind them.
LEMMA MixIsValue ==
    ASSUME NEW epoch \in Epochs, NEW revealed \in SUBSET Range(Proposers)
    PROVE  Mix(epoch, revealed) \in Values
<1>1. Mix(epoch, revealed) \in Mixes
  <2>1. Mix(epoch, revealed) \in {Mix(epoch, r) : r \in SUBSET Range(Proposers)}
    OBVIOUS
  <2> QED
    BY <2>1 DEF Mixes
<1>2. ASSUME NEW mix \in Mixes
      PROVE  mix.origin \in Origins
  BY DEF Origins
<1>3. Mix(epoch, revealed) = [origin |-> Mix(epoch, revealed).origin, steps |-> 0]
  BY DEF Mix
<1> QED
  BY <1>1, <1>2, <1>3 DEF Values

LEMMA MadeUpIsValue ==
    ASSUME NEW n \in Nat
    PROVE  /\ [origin |-> <<"made up", n>>, steps |-> 0] \in Values
           /\ [origin |-> <<"made up", n>>, steps |-> 0].steps = 0
<1>1. <<"made up", n>> \in Origins
  BY DEF Origins
<1> QED
  BY <1>1 DEF Values

\* Iterating adds to the steps and keeps the origin.
LEMMA IterateOnce ==
    ASSUME NEW v \in Values, NEW m \in Nat
    PROVE  /\ Iterate(v, m) \in Values /\ Iterate(v, m).steps = v.steps + m
           /\ Iterate(v, 0) = v
  BY DEF Values, Iterate

\* Two stretches of steps are one.
LEMMA IterateTwice ==
    ASSUME NEW v \in Values, NEW m \in Nat, NEW n \in Nat
    PROVE  Iterate(Iterate(v, m), n) = Iterate(v, m + n)
<1>1. Iterate(v, m) = [origin |-> v.origin, steps |-> v.steps + m]
  BY DEF Values, Iterate
<1>2. Iterate(v, m + n) = [origin |-> v.origin, steps |-> v.steps + (m + n)]
  BY DEF Values, Iterate
<1>3. Iterate([origin |-> v.origin, steps |-> v.steps + m], n)
        = [origin |-> v.origin, steps |-> (v.steps + m) + n]
  BY DEF Iterate
<1>4. v.steps \in Nat /\ v.origin \in Origins
  BY DEF Values
<1>5. (v.steps + m) + n = v.steps + (m + n) /\ v.steps + m \in Nat
  BY <1>4
<1> QED
  BY <1>1, <1>2, <1>3, <1>4, <1>5 DEF Values

\* A prover's first checkpoint is a mix, and nothing is recorded yet.
LEMMA StartInv ==
    ASSUME DelayInv, NEW epoch \in Epochs, NEW revealed \in SUBSET Range(Proposers),
           NEW schedule \in Schedules, StartDelay(epoch, revealed, schedule)
    PROVE  DelayInv'
<1> DEFINE p == [iterations |-> schedule[1], segments |-> schedule[2],
                 checkpoints |-> <<Mix(epoch, revealed)>>]
<1>1. proof' = {p} /\ skipped' = {} /\ LegalParameters(schedule)
  BY DEF StartDelay, DelayInv
<1>2. Mix(epoch, revealed) \in Values
  BY MixIsValue
<1>3. SegmentLength(p) = schedule[1] \div schedule[2]
  BY DEF SegmentLength
<1>4. /\ p.checkpoints \in Seq(Values) /\ Len(p.checkpoints) = 1
      /\ p.checkpoints[1] = Mix(epoch, revealed)
  BY <1>2
<1>5. WellFormed(p)
  <2>1. /\ p.iterations \in Nat /\ p.segments \in Nat \ {0}
        /\ SegmentLength(p) \in Nat \ {0}
        /\ p.iterations = p.segments * SegmentLength(p)
    BY <1>1, <1>3, EqualSegments
  <2> QED
    BY <1>4, <2>1 DEF WellFormed
<1>6. Arrived(p)'
  <2>1. Last(p.checkpoints) = Mix(epoch, revealed)
    BY <1>4 DEF Last
  <2>2. (Len(p.checkpoints) - 1) * SegmentLength(p) = 0
    BY <1>4, <1>5 DEF WellFormed
  <2>3. Iterate(Mix(epoch, revealed), 0) = Mix(epoch, revealed)
    BY <1>2, IterateOnce
  <2> HIDE DEF p
  <2> QED
    BY <1>4, <2>1, <2>2, <2>3 DEF Arrived
<1> HIDE DEF p
<1>7. Recorded(p)' /\ {} \subseteq 0 .. (Len(p.checkpoints) - 2)
  BY <1>4 DEF Recorded
<1> QED
  BY <1>1, <1>5, <1>6, <1>7 DEF DelayInv

\* A proof with one checkpoint more.
LEMMA AppendedProof ==
    ASSUME NEW p, WellFormed(p), NEW value
    PROVE  [p EXCEPT !.checkpoints = Append(@, value)]
              = [iterations |-> p.iterations, segments |-> p.segments,
                 checkpoints |-> Append(p.checkpoints, value)]
<1>1. p \in [iterations : Nat, segments : Nat \ {0}, checkpoints : Seq(Values)]
  BY DEF WellFormed
<1>2. \A s : [p EXCEPT !.checkpoints = s]
              = [iterations |-> p.iterations, segments |-> p.segments, checkpoints |-> s]
  BY <1>1
<1> QED
  BY <1>2

\* One checkpoint more, computed or made up, keeps what is there.
LEMMA CheckpointInv ==
    ASSUME NEW p, WellFormed(p), Recorded(p), Arrived(p),
           skipped \subseteq 0 .. (Len(p.checkpoints) - 2),
           NEW value \in Values,
           \/ value = Iterate(Last(p.checkpoints), SegmentLength(p)) /\ skipped' = skipped
           \/ value.steps = 0 /\ skipped' = skipped \cup {Len(p.checkpoints) - 1},
           proof' = {[p EXCEPT !.checkpoints = Append(@, value)]}
    PROVE  DelayInv'
<1> DEFINE q == [p EXCEPT !.checkpoints = Append(@, value)]
           n == Len(p.checkpoints)
           L == SegmentLength(p)
<1>1. /\ p.checkpoints \in Seq(Values) /\ n \in Nat \ {0}
      /\ L \in Nat \ {0} /\ p.segments \in Nat \ {0} /\ p.iterations \in Nat
  BY DEF WellFormed
<1>2. q = [iterations |-> p.iterations, segments |-> p.segments,
           checkpoints |-> Append(p.checkpoints, value)]
  BY AppendedProof
<1>3. /\ q.checkpoints \in Seq(Values) /\ Len(q.checkpoints) = n + 1
      /\ q.checkpoints[n + 1] = value
      /\ \A i \in 1 .. n : q.checkpoints[i] = p.checkpoints[i]
  BY <1>1, <1>2
<1>4. SegmentLength(q) = L
  BY <1>2 DEF SegmentLength
<1>5. WellFormed(q)
  <2>1. /\ q.iterations = p.iterations /\ q.segments = p.segments
        /\ q = [iterations |-> q.iterations, segments |-> q.segments,
                checkpoints |-> q.checkpoints]
    BY <1>2
  <2> HIDE DEF q
  <2>2. p.iterations = p.segments * L
    BY DEF WellFormed
  <2> HIDE DEF L
  <2>3. q.iterations = q.segments * SegmentLength(q) /\ Len(q.checkpoints) > 0
    BY <1>1, <1>3, <1>4, <2>1, <2>2
  <2>4. q \in [iterations : Nat, segments : Nat \ {0}, checkpoints : Seq(Values)]
    BY <1>1, <1>3, <2>1
  <2> QED
    BY <1>1, <1>4, <2>3, <2>4 DEF WellFormed
<1> HIDE DEF q
<1>6. skipped' \subseteq 0 .. (Len(q.checkpoints) - 2)
  BY <1>1, <1>3
<1>7. Last(p.checkpoints) = p.checkpoints[n] /\ Last(q.checkpoints) = value
      /\ p.checkpoints[n] \in Values /\ p.checkpoints[1] \in Values
  BY <1>1, <1>3 DEF Last
<1>8. Recorded(q)'
  <2> SUFFICES ASSUME NEW i \in 0 .. (Len(q.checkpoints) - 2)
               PROVE  IF i \in skipped' THEN q.checkpoints[i + 2].steps = 0
                      ELSE q.checkpoints[i + 2] = Iterate(q.checkpoints[i + 1], L)
    BY <1>4 DEF Recorded
  <2>1. CASE i = n - 1
    <3>1. n - 1 \notin skipped
      BY <1>1
    <3>2. i + 2 = n + 1 /\ i + 1 = n /\ n \in 1 .. n
      BY <1>1, <2>1
    <3>3. q.checkpoints[i + 2] = value /\ q.checkpoints[i + 1] = p.checkpoints[n]
      BY <1>3, <3>2
    <3> QED
      BY <1>7, <2>1, <3>1, <3>3
  <2>2. CASE i # n - 1
    <3>1. /\ i \in 0 .. (n - 2) /\ i + 2 \in 1 .. n /\ i + 1 \in 1 .. n
          /\ i \in skipped' <=> i \in skipped
      <4>1. i \in 0 .. (n - 2) /\ i + 2 \in 1 .. n /\ i + 1 \in 1 .. n
        <5>1. Len(q.checkpoints) = n + 1 /\ n \in Nat \ {0}
          BY <1>1, <1>3, Zenon
        <5> DEFINE m == Len(q.checkpoints)
        <5>2. i \in 0 .. (m - 2)
          OBVIOUS
        <5> HIDE DEF n, m
        <5>3. m = n + 1
          BY <5>1, Zenon DEF m
        <5> QED
          BY <2>2, <5>1, <5>2, <5>3
      <4>2. skipped' = skipped \/ skipped' = skipped \cup {n - 1}
        OBVIOUS
      <4> QED
        BY <2>2, <4>1, <4>2
    <3>2. IF i \in skipped THEN p.checkpoints[i + 2].steps = 0
          ELSE p.checkpoints[i + 2] = Iterate(p.checkpoints[i + 1], L)
      BY <3>1, Zenon DEF Recorded
    <3>3. q.checkpoints[i + 2] = p.checkpoints[i + 2] /\ q.checkpoints[i + 1] = p.checkpoints[i + 1]
      BY <1>3, <3>1
    <3> HIDE DEF L
    <3> QED
      BY <3>1, <3>2, <3>3
  <2> QED
    BY <2>1, <2>2
<1>9. Arrived(q)'
  <2> SUFFICES ASSUME skipped' = {}
               PROVE  value = Iterate(q.checkpoints[1], n * L)
    BY <1>1, <1>3, <1>4, <1>7 DEF Arrived
  <2>1. value = Iterate(p.checkpoints[n], L) /\ skipped = {}
    BY <1>7
  <2>2. p.checkpoints[n] = Iterate(p.checkpoints[1], (n - 1) * L)
    BY <1>7, <2>1 DEF Arrived
  <2>3. (n - 1) * L \in Nat /\ (n - 1) * L + L = n * L
    BY <1>1
  <2>4. value = Iterate(p.checkpoints[1], (n - 1) * L + L)
    BY <1>1, <1>7, <2>1, <2>2, <2>3, IterateTwice
  <2>5. q.checkpoints[1] = p.checkpoints[1]
    BY <1>1, <1>3
  <2> QED
    BY <2>3, <2>4, <2>5
<1> QED
  BY <1>5, <1>6, <1>8, <1>9 DEF DelayInv, q

\* Every step keeps the invariant.
LEMMA NextInv == DelayInv /\ [DelayNext]_delayVars => DelayInv'
<1> SUFFICES ASSUME DelayInv, [DelayNext]_delayVars
             PROVE  DelayInv'
  OBVIOUS
<1>1. ASSUME UNCHANGED <<proof, skipped>>
      PROVE  DelayInv'
  BY <1>1 DEF DelayInv, Recorded, Arrived
<1>2. ASSUME NEW epoch \in Epochs, NEW revealed \in SUBSET Range(Proposers),
             NEW schedule \in Schedules, StartDelay(epoch, revealed, schedule)
      PROVE  DelayInv'
  BY <1>2, StartInv
<1>3. CASE ComputeSegment
  <2>1. PICK p \in proof : /\ AddCheckpoint(p, Iterate(Last(p.checkpoints), SegmentLength(p)))
                           /\ skipped' = skipped
    BY <1>3 DEF ComputeSegment
  <2>2. /\ WellFormed(p) /\ Recorded(p) /\ Arrived(p)
        /\ skipped \subseteq 0 .. (Len(p.checkpoints) - 2)
    BY DEF DelayInv
  <2>3. Last(p.checkpoints) \in Values /\ SegmentLength(p) \in Nat
    BY <2>2 DEF WellFormed, Last
  <2>4. Iterate(Last(p.checkpoints), SegmentLength(p)) \in Values
    BY <2>3, IterateOnce
  <2> QED
    BY <2>1, <2>2, <2>4, CheckpointInv DEF AddCheckpoint
<1>4. CASE SkipSegment
  <2> DEFINE made(p) == [origin |-> <<"made up", Len(p.checkpoints)>>, steps |-> 0]
  <2>1. PICK p \in proof : /\ AddCheckpoint(p, made(p))
                           /\ skipped' = skipped \cup {Len(p.checkpoints) - 1}
    BY <1>4 DEF SkipSegment
  <2>2. /\ WellFormed(p) /\ Recorded(p) /\ Arrived(p)
        /\ skipped \subseteq 0 .. (Len(p.checkpoints) - 2)
    BY DEF DelayInv
  <2>3. made(p) \in Values /\ made(p).steps = 0
    <3>1. Len(p.checkpoints) \in Nat
      BY <2>2 DEF WellFormed
    <3> QED
      BY <3>1, MadeUpIsValue
  <2> HIDE DEF made
  <2> QED
    BY <2>1, <2>2, <2>3, CheckpointInv DEF AddCheckpoint
<1> QED
  BY <1>1, <1>2, <1>3, <1>4
     DEF DelayNext, delayVars, RevealForSeed, PublishProof, AdoptSeed

\* The invariant holds throughout.
LEMMA SpecInv == DelaySpec => []DelayInv
<1>1. DelayInit => DelayInv
  BY DEF DelayInit, DelayInv
<1> QED
  BY <1>1, NextInv, PTL DEF DelaySpec

\* A segment passes exactly when it was not skipped: what is made up has no
\* steps behind it, and an honest segment has at least one.
LEMMA SegmentPasses ==
    ASSUME NEW p, WellFormed(p), Recorded(p),
           NEW index \in Nat, index + 2 <= Len(p.checkpoints)
    PROVE  CheckSegment(p, index) <=> index \notin skipped
<1>1. /\ p.checkpoints[index + 1] \in Values /\ SegmentLength(p) \in Nat \ {0}
      /\ index \in 0 .. (Len(p.checkpoints) - 2)
  BY DEF WellFormed
<1>2. Iterate(p.checkpoints[index + 1], SegmentLength(p)).steps # 0
  <2>1. p.checkpoints[index + 1].steps \in Nat
    BY <1>1 DEF Values
  <2>2. Iterate(p.checkpoints[index + 1], SegmentLength(p)).steps
          = p.checkpoints[index + 1].steps + SegmentLength(p)
    BY <1>1, IterateOnce
  <2> QED
    BY <1>1, <2>1, <2>2
<1>3. CASE index \in skipped
  BY <1>1, <1>2, <1>3 DEF Recorded, CheckSegment
<1>4. CASE index \notin skipped
  BY <1>1, <1>4 DEF Recorded, CheckSegment
<1> QED
  BY <1>3, <1>4

\* What the full check tells of a proof.
LEMMA FullCheckMeans ==
    ASSUME DelayInv, NEW p \in proof
    PROVE  /\ CheckFully(p, Input) <=> Evaluated(p)
           /\ CheckFully(p, Input) => Output(p) = Iterate(Input, p.iterations)
<1>1. /\ WellFormed(p) /\ Recorded(p) /\ Arrived(p)
      /\ skipped \subseteq 0 .. (Len(p.checkpoints) - 2)
  BY DEF DelayInv
<1>2. /\ p.segments \in Nat \ {0} /\ SegmentLength(p) \in Nat
      /\ p.iterations = p.segments * SegmentLength(p)
  BY <1>1 DEF WellFormed
<1>3. CASE CheckShape(p, Input)
  <2>1. Len(p.checkpoints) = p.segments + 1 /\ p.checkpoints[1] = Input
    BY <1>3 DEF CheckShape
  <2>2. \A index \in 0 .. (p.segments - 1) : CheckSegment(p, index) <=> index \notin skipped
    <3> SUFFICES ASSUME NEW index \in 0 .. (p.segments - 1)
                 PROVE  CheckSegment(p, index) <=> index \notin skipped
      OBVIOUS
    <3>1. index \in Nat /\ index + 2 <= Len(p.checkpoints)
      BY <1>2, <2>1
    <3> QED
      BY <1>1, <3>1, SegmentPasses
  <2>3. CheckFully(p, Input) <=> skipped = {}
    BY <1>1, <1>2, <1>3, <2>1, <2>2 DEF CheckFully
  <2>4. skipped = {} => Output(p) = Iterate(Input, p.iterations)
    BY <1>1, <1>2, <2>1 DEF Arrived, Output
  <2> QED
    BY <2>1, <2>3, <2>4 DEF Evaluated
<1>4. CASE ~CheckShape(p, Input)
  BY <1>4 DEF CheckShape, CheckFully, Evaluated
<1> QED
  BY <1>3, <1>4

\* Whatever a prover skips, begins from or publishes, the full check passes
\* exactly the proofs that were evaluated from this epoch's mix without a gap,
\* and what they end in is the delay's output (DelayProof::check_fully).
THEOREM FullCheckIsExact ==
    DelaySpec =>
      [](\A p \in proof :
           /\ CheckFully(p, Input) <=> Evaluated(p)
           /\ CheckFully(p, Input) => Output(p) = Iterate(Input, p.iterations))
<1>1. DelayInv => \A p \in proof :
           /\ CheckFully(p, Input) <=> Evaluated(p)
           /\ CheckFully(p, Input) => Output(p) = Iterate(Input, p.iterations)
  BY FullCheckMeans
<1> QED
  BY <1>1, SpecInv, PTL

\* None of the segments a challenge samples was skipped.
SamplesComputed(p, challenge) ==
    \A sample \in 1 .. SampleCount : SampleIndex(challenge, sample, p.segments) \notin skipped

\* The prover began at this epoch's mix and took one checkpoint per segment.
Whole(p) == Len(p.checkpoints) = p.segments + 1 /\ p.checkpoints[1] = Input

\* A sample is one of the proof's segments.
LEMMA SampleIsSegment ==
    ASSUME NEW p, p.segments \in Nat \ {0}, NEW challenge \in Challenges,
           NEW sample \in 1 .. SampleCount
    PROVE  SampleIndex(challenge, sample, p.segments) \in 0 .. (p.segments - 1)
<1>1. challenge[sample] \in Nat
  BY DelayAssumption DEF Challenges
<1> QED
  BY <1>1, Remainder DEF SampleIndex

\* What the sampled check tells of a proof.
LEMMA SampledCheckMeans ==
    ASSUME DelayInv, NEW p \in proof, NEW challenge \in Challenges
    PROVE  CheckSampled(p, Input, challenge) <=> Whole(p) /\ SamplesComputed(p, challenge)
<1>1. /\ WellFormed(p) /\ Recorded(p)
      /\ p.segments \in Nat \ {0}
  BY DEF DelayInv, WellFormed
<1>2. CheckShape(p, Input) <=> Whole(p)
  BY DEF CheckShape, Whole
<1>3. ASSUME Whole(p), NEW sample \in 1 .. SampleCount
      PROVE  CheckSegment(p, SampleIndex(challenge, sample, p.segments))
                <=> SampleIndex(challenge, sample, p.segments) \notin skipped
  <2> DEFINE index == SampleIndex(challenge, sample, p.segments)
  <2>1. index \in 0 .. (p.segments - 1)
    BY <1>1, SampleIsSegment
  <2> HIDE DEF index
  <2>2. index \in Nat /\ index + 2 <= Len(p.checkpoints)
    BY <1>1, <1>3, <2>1 DEF Whole
  <2>3. CheckSegment(p, index) <=> index \notin skipped
    BY <1>1, <2>2, SegmentPasses
  <2> QED
    BY <2>3 DEF index
<1> QED
  BY <1>2, <1>3 DEF CheckSampled, SamplesComputed

\* An adopted seed is the output of the published proof, under a challenge it passes.
SeedInv ==
    seed # {} =>
       /\ published
       /\ \E p \in proof, challenge \in Challenges :
             /\ CheckSampled(p, Input, challenge)
             /\ seed = {[value |-> Output(p), delayed |-> TRUE]}

LEMMA SeedInvNext == SeedInv /\ [DelayNext]_delayVars => SeedInv'
<1> SUFFICES ASSUME SeedInv, [DelayNext]_delayVars
             PROVE  SeedInv'
  OBVIOUS
<1>1. ASSUME UNCHANGED <<reveals, proof, skipped, published, seed>>
      PROVE  SeedInv'
  BY <1>1 DEF SeedInv, Input
<1>2. ASSUME ~ published, UNCHANGED seed
      PROVE  SeedInv'
  BY <1>2 DEF SeedInv
<1>3. ASSUME NEW proposer, RevealForSeed(proposer)
      PROVE  SeedInv'
  BY <1>2, <1>3 DEF RevealForSeed
<1>4. ASSUME NEW epoch, NEW revealed, NEW schedule, StartDelay(epoch, revealed, schedule)
      PROVE  SeedInv'
  BY <1>4 DEF StartDelay, SeedInv
<1>5. ASSUME ComputeSegment \/ SkipSegment
      PROVE  SeedInv'
  BY <1>2, <1>5 DEF ComputeSegment, SkipSegment, AddCheckpoint
<1>6. ASSUME PublishProof
      PROVE  SeedInv'
  BY <1>2, <1>6 DEF PublishProof
<1>7. ASSUME NEW challenge \in Challenges, AdoptSeed(challenge)
      PROVE  SeedInv'
  <2>1. PICK p \in proof : /\ CheckSampled(p, Input, challenge)
                           /\ seed' = {[value |-> Output(p), delayed |-> TRUE]}
    BY <1>7 DEF AdoptSeed
  <2>2. published' /\ proof' = proof /\ Input' = Input
    BY <1>7 DEF AdoptSeed, Input
  <2> QED
    BY <2>1, <2>2 DEF SeedInv
<1> QED
  BY <1>1, <1>3, <1>4, <1>5, <1>6, <1>7 DEF DelayNext, delayVars

\* An adopted seed stays the output of the proof it came from.
LEMMA SeedSpec == DelaySpec => []SeedInv
<1>1. DelayInit => SeedInv
  BY DEF DelayInit, SeedInv
<1> QED
  BY <1>1, SeedInvNext, PTL DEF DelaySpec

\* The sampled check passes exactly the whole chains none of whose sampled
\* segments was skipped, so every seed a verifier adopts is the output of a chain from this
\* epoch's mix, with some of its segments computed (DelayProof::check_sampled,
\* EpochSeed::from_checked_proof).
THEOREM SampledCheckIsExact ==
    DelaySpec =>
      [](/\ \A p \in proof, challenge \in Challenges :
               CheckSampled(p, Input, challenge) <=> Whole(p) /\ SamplesComputed(p, challenge)
         /\ seed # {} =>
               \E p \in proof :
                  /\ seed = {[value |-> Output(p), delayed |-> TRUE]} /\ Whole(p)
                  /\ (0 .. (p.segments - 1)) \ skipped # {})
<1> DEFINE Exact == \A p \in proof, challenge \in Challenges :
               CheckSampled(p, Input, challenge) <=> Whole(p) /\ SamplesComputed(p, challenge)
           Worked == seed # {} =>
               \E p \in proof :
                  /\ seed = {[value |-> Output(p), delayed |-> TRUE]} /\ Whole(p)
                  /\ (0 .. (p.segments - 1)) \ skipped # {}
<1>1. DelayInv => Exact
  BY SampledCheckMeans
<1>2. DelayInv /\ SeedInv => Worked
  <2> SUFFICES ASSUME DelayInv, SeedInv, seed # {}
               PROVE  \E p \in proof :
                  /\ seed = {[value |-> Output(p), delayed |-> TRUE]} /\ Whole(p)
                  /\ (0 .. (p.segments - 1)) \ skipped # {}
    OBVIOUS
  <2>1. PICK p \in proof, challenge \in Challenges :
           /\ CheckSampled(p, Input, challenge)
           /\ seed = {[value |-> Output(p), delayed |-> TRUE]}
    BY DEF SeedInv
  <2>2. Whole(p) /\ SamplesComputed(p, challenge)
    BY <2>1, SampledCheckMeans
  <2>3. p.segments \in Nat \ {0}
    BY DEF DelayInv, WellFormed
  <2>4. 1 \in 1 .. SampleCount
    BY DelayAssumption
  <2>5. SampleIndex(challenge, 1, p.segments) \in 0 .. (p.segments - 1)
    BY <2>3, <2>4, SampleIsSegment
  <2>6. SampleIndex(challenge, 1, p.segments) \notin skipped
    BY <2>2, <2>4 DEF SamplesComputed
  <2> QED
    BY <2>1, <2>2, <2>5, <2>6
<1> QED
  BY <1>1, <1>2, SeedSpec, SpecInv, PTL

\* h is x to every power up to k.
Multiplied(h, x, k) == h = [d \in 0 .. k |-> IF d = 0 THEN 1 ELSE x * h[d - 1]]

\* EverySample is what its definition says.
LEMMA EverySampleIs ==
    ASSUME NEW x
    PROVE  \E h : Multiplied(h, x, SampleCount) /\ EverySample(x) = h[SampleCount]
<1> DEFINE k == SampleCount
<1>0. k \in Nat
  BY DelayAssumption
<1> HIDE DEF k
<1> DEFINE n == k
           B == {m \in 0..n : \E h : Multiplied(h, x, m)}
<1>1. 0 \in B
  <2>1. Multiplied([d \in 0..0 |-> 1], x, 0)
    BY DEF Multiplied
  <2> QED
    BY <1>0, <2>1
<1>2. ASSUME NEW m \in 1..n, m - 1 \in B
      PROVE  m \in B
  <2>1. PICK h : Multiplied(h, x, m - 1)
    BY <1>2
  <2> DEFINE g == [d \in 0..m |-> IF d = m THEN x * h[m - 1] ELSE h[d]]
  <2>2. ASSUME NEW d \in 0..m
        PROVE  g[d] = IF d = 0 THEN 1 ELSE x * g[d - 1]
    <3>1. CASE d = m
      <4>1. d - 1 \in 0..m /\ d - 1 # m /\ d # 0
        BY <3>1
      <4> QED
        BY <3>1, <4>1
    <3>2. CASE d # m
      <4>1. d \in 0..(m - 1) /\ (d # 0 => d - 1 \in 0..m /\ d - 1 # m)
        BY <3>2
      <4>2. h[d] = IF d = 0 THEN 1 ELSE x * h[d - 1]
        BY <2>1, <4>1 DEF Multiplied
      <4>3. g[d] = h[d] /\ (d # 0 => g[d - 1] = h[d - 1])
        BY <3>2, <4>1
      <4> HIDE DEF g
      <4> QED
        BY <4>2, <4>3
    <3> QED
      BY <3>1, <3>2
  <2>3. g = [d \in 0..m |-> g[d]]
    OBVIOUS
  <2> HIDE DEF g
  <2>4. Multiplied(g, x, m)
    BY <2>2, <2>3 DEF Multiplied
  <2> QED
    BY <2>4
<1>3. n \in B
  <2>1. n \in Nat
    BY <1>0
  <2>2. \A m \in 1..n : m - 1 \in B => m \in B
    BY <1>2
  <2> HIDE DEF B, n
  <2>3. \A m \in 0..n : m \in B
    BY <1>1, <2>1, <2>2, Climb
  <2> QED
    BY <2>1, <2>3
<1>4. PICK h : Multiplied(h, x, n)
  BY <1>3
<1> DEFINE f == CHOOSE f : Multiplied(f, x, SampleCount)
<1>5. Multiplied(f, x, SampleCount)
  BY <1>4, Zenon DEF k
<1>6. EverySample(x) = f[SampleCount]
  BY Zenon DEF EverySample, Multiplied
<1> HIDE DEF f
<1> QED
  BY <1>5, <1>6

\* Two functions with the same values are the same.
LEMMA SamePlaces ==
    ASSUME NEW D, NEW M, NEW a \in [D -> M], NEW b \in [D -> M], \A i \in D : a[i] = b[i]
    PROVE  a = b
OBVIOUS

\* A one-to-one function onto a set counts it.
LEMMA OneToOne ==
    ASSUME NEW S, NEW T, IsFiniteSet(S), NEW f \in [S -> T],
           \A a, b \in S : f[a] = f[b] => a = b,
           \A u \in T : \E a \in S : f[a] = u
    PROVE  IsFiniteSet(T) /\ Cardinality(T) = Cardinality(S)
<1>1. f \in Bijection(S, T)
  <2>1. IsInjective(f)
    BY DEF IsInjective
  <2> QED
    BY <2>1 DEF Bijection, Injection, Surjection
<1>2. ExistsBijection(S, T)
  BY <1>1 DEF ExistsBijection
<1> QED
  BY <1>2, FS_Bijection

\* There are |M|^k ways to choose k times from M.
LEMMA ChoicesCount ==
    ASSUME NEW M, IsFiniteSet(M), NEW k \in Nat, NEW h, Multiplied(h, Cardinality(M), k)
    PROVE  IsFiniteSet([1 .. k -> M]) /\ Cardinality([1 .. k -> M]) = h[k]
<1> DEFINE B == {d \in 0 .. k : /\ IsFiniteSet([1 .. d -> M])
                                /\ Cardinality([1 .. d -> M]) = h[d]}
<1>0. Cardinality(M) \in Nat
  BY FS_CardinalityType
<1>1. 0 \in B
  <2> DEFINE S == [1 .. 0 -> M]
             e == [i \in 1 .. 0 |-> 1]
  <2>1. S = {e}
    <3>1. e \in S
      OBVIOUS
    <3>2. \A f \in S : f = e
      OBVIOUS
    <3> QED
      BY <3>1, <3>2
  <2> HIDE DEF S, e
  <2>2. IsFiniteSet(S) /\ Cardinality(S) = 1
    BY <2>1, FS_Singleton
  <2>3. h[0] = 1
    BY DEF Multiplied
  <2> QED
    BY <2>2, <2>3 DEF S
<1>2. ASSUME NEW d \in 1 .. k, d - 1 \in B
      PROVE  d \in B
  <2> DEFINE l == d - 1
             S == [1 .. l -> M]
             T == [1 .. d -> M]
             join(t) == [i \in 1 .. d |-> IF i = d THEN t[2] ELSE t[1][i]]
             f == [t \in S \X M |-> join(t)]
  <2>1. IsFiniteSet(S) /\ Cardinality(S) = h[l] /\ l \in Nat /\ l + 1 = d
    BY <1>2
  <2>2. IsFiniteSet(S \X M) /\ Cardinality(S \X M) = h[l] * Cardinality(M)
    <3> HIDE DEF S, l
    <3> QED
      BY <2>1, FS_Product
  <2>3. \A i \in 1 .. d : i # d => i \in 1 .. l
    BY <2>1
  <2>4. f \in [S \X M -> T]
    BY <2>3
  <2>5. ASSUME NEW t \in S \X M, NEW u \in S \X M, f[t] = f[u]
        PROVE  t = u
    <3>1. join(t) = join(u)
      BY <2>5
    <3>2. \A i \in 1 .. d : join(t)[i] = join(u)[i]
      BY <3>1
    <3>3. t[2] = u[2]
      <4>1. d \in 1 .. d
        BY <2>1
      <4> QED
        BY <3>2, <4>1
    <3>4. \A i \in 1 .. l : t[1][i] = u[1][i]
      <4>1. \A i \in 1 .. l : i \in 1 .. d /\ i # d
        BY <2>1
      <4> QED
        BY <3>2, <4>1
    <3>5. t[1] = u[1]
      <4>1. t[1] \in [1 .. l -> M] /\ u[1] \in [1 .. l -> M]
        OBVIOUS
      <4> DEFINE a == t[1]
                 b == u[1]
                 D == 1 .. l
      <4>2. a \in [D -> M] /\ b \in [D -> M]
        BY <4>1
      <4>3. \A i \in D : a[i] = b[i]
        BY <3>4
      <4> HIDE DEF a, b, D
      <4>4. a = b
        BY <4>2, <4>3, SamePlaces
      <4> QED
        BY <4>4 DEF a, b
    <3> QED
      BY <3>3, <3>5
  <2>6. ASSUME NEW g \in T
        PROVE  \E t \in S \X M : f[t] = g
    <3> DEFINE a == [i \in 1 .. l |-> g[i]]
               t == <<a, g[d]>>
    <3>1. d \in 1 .. d /\ \A i \in 1 .. l : i \in 1 .. d
      BY <2>1
    <3>2. a \in S /\ g[d] \in M
      BY <3>1
    <3>3. t \in S \X M /\ t[1] = a /\ t[2] = g[d]
      BY <3>2
    <3>4. \A i \in 1 .. l : a[i] = g[i]
      OBVIOUS
    <3> HIDE DEF a, t
    <3>5. \A i \in 1 .. d : join(t)[i] = g[i]
      BY <2>3, <3>3, <3>4
    <3>6. join(t) = g
      BY <3>5
    <3> QED
      BY <3>3, <3>6
  <2>7. IsFiniteSet(T) /\ Cardinality(T) = Cardinality(S \X M)
    <3> DEFINE P == S \X M
    <3>1. /\ IsFiniteSet(P) /\ f \in [P -> T]
          /\ \A t, u \in P : f[t] = f[u] => t = u
          /\ \A g \in T : \E t \in P : f[t] = g
      BY <2>2, <2>4, <2>5, <2>6
    <3> HIDE DEF P, T, f
    <3>2. IsFiniteSet(T) /\ Cardinality(T) = Cardinality(P)
      BY <3>1, OneToOne
    <3> QED
      BY <3>2 DEF P
  <2>8. IsFiniteSet(T) /\ Cardinality(T) = h[l] * Cardinality(M)
    <3> HIDE DEF T, S, l
    <3> QED
      BY <2>2, <2>7
  <2>9. h[d] = Cardinality(M) * h[l]
    <3>1. d \in 0 .. k /\ d # 0
      BY <2>1
    <3> QED
      BY <3>1 DEF Multiplied
  <2>10. h[l] \in Nat
    BY <2>1, FS_CardinalityType
  <2>11. h[l] * Cardinality(M) = Cardinality(M) * h[l]
    <3> DEFINE x == h[l]
               y == Cardinality(M)
    <3>1. x \in Nat /\ y \in Nat
      BY <1>0, <2>10
    <3> HIDE DEF x, y
    <3>2. x * y = y * x
      BY <3>1
    <3> QED
      BY <3>2 DEF x, y
  <2>12. d \in 0 .. k
    BY <2>1
  <2> QED
    BY <2>8, <2>9, <2>11, <2>12
<1> HIDE DEF B
<1>3. \A d \in 0 .. k : d \in B
  BY <1>1, <1>2, Climb
<1> QED
  BY <1>3 DEF B

\* Of q * n consecutive numbers, q leave each remainder.
LEMMA RemaindersCount ==
    ASSUME NEW n \in Nat \ {0}, NEW q \in Nat, NEW K \in SUBSET (0 .. (n - 1))
    PROVE  LET H == {m \in 0 .. (n * q - 1) : m % n \in K}
           IN  IsFiniteSet(H) /\ IsFiniteSet(K) /\ Cardinality(H) = q * Cardinality(K)
<1> DEFINE H == {m \in 0 .. (n * q - 1) : m % n \in K}
           Q == 0 .. (q - 1)
           f == [t \in Q \X K |-> t[2] + n * t[1]]
<1>1. IsFiniteSet(K)
  <2>1. IsFiniteSet(0 .. (n - 1))
    BY FS_Interval
  <2> QED
    BY <2>1, FS_Subset
<1>2. IsFiniteSet(Q) /\ Cardinality(Q) = q
  <2>1. 0 \in Int /\ q - 1 \in Int /\ (0 > q - 1 <=> q = 0) /\ (q - 1) - 0 + 1 = q
    OBVIOUS
  <2> DEFINE r == q - 1
  <2> HIDE DEF r
  <2>2. IsFiniteSet(0 .. r) /\ Cardinality(0 .. r) = IF 0 > r THEN 0 ELSE r - 0 + 1
    <3>1. 0 \in Int /\ r \in Int
      BY <2>1 DEF r
    <3> QED
      BY <3>1, FS_Interval
  <2> QED
    BY <2>1, <2>2 DEF r
<1>3. IsFiniteSet(Q \X K) /\ Cardinality(Q \X K) = q * Cardinality(K)
  <2> HIDE DEF Q
  <2> QED
    BY <1>1, <1>2, FS_Product
<1>4. ASSUME NEW t \in Q \X K
      PROVE  /\ t[1] \in Nat /\ t[2] \in 0 .. (n - 1)
             /\ f[t] \in H /\ f[t] % n = t[2] /\ f[t] \div n = t[1]
  <2>1. t[1] \in Nat /\ t[1] <= q - 1 /\ t[2] \in 0 .. (n - 1) /\ t[2] \in K
    <3>1. t[1] \in Q /\ t[2] \in K
      <4> HIDE DEF Q
      <4> QED
        OBVIOUS
    <3>2. \A y \in Q : y \in Nat /\ y <= q - 1
      OBVIOUS
    <3> HIDE DEF Q
    <3> QED
      BY <3>1, <3>2
  <2> DEFINE x == t[1]
             c == t[2]
             m == c + n * x
  <2>2. x \in Nat /\ x <= q - 1 /\ c \in 0 .. (n - 1) /\ c \in K
    BY <2>1
  <2>3. f[t] = m
    OBVIOUS
  <2> HIDE DEF x, c, f
  <2>4. m % n = c /\ m \div n = x
    BY <2>2, Digits
  <2>5. m \in 0 .. (n * q - 1)
    <3>1. n * x <= n * (q - 1) /\ n * (q - 1) = n * q - n /\ n * x \in Nat
      BY <2>2
    <3> QED
      BY <2>2, <3>1
  <2> QED
    BY <2>2, <2>3, <2>4, <2>5 DEF x, c
<1>5. ASSUME NEW m \in H
      PROVE  \E t \in Q \X K : f[t] = m
  <2>1. m \in Nat /\ m < n * q /\ m % n \in K
    OBVIOUS
  <2> DEFINE x == m \div n
             c == m % n
  <2>2. m = n * x + c /\ x \in Int /\ c \in 0 .. (n - 1)
    BY <2>1
  <2>3. c \in K
    BY <2>1
  <2> HIDE DEF x, c
  <2>4. x >= 0
    <3> SUFFICES ASSUME x <= 0 - 1
                 PROVE  FALSE
      BY <2>2
    <3>1. n * x <= n * (0 - 1)
      BY <2>2
    <3> QED
      BY <2>1, <2>2, <3>1
  <2>5. x <= q - 1
    <3> SUFFICES ASSUME x >= q
                 PROVE  FALSE
      BY <2>2
    <3>1. n * x >= n * q
      BY <2>2
    <3> QED
      BY <2>1, <2>2, <3>1
  <2>6. <<x, c>> \in Q \X K /\ f[<<x, c>>] = c + n * x
    BY <2>2, <2>3, <2>4, <2>5
  <2>7. c + n * x = m
    BY <2>2
  <2> QED
    BY <2>6, <2>7
<1>6. \A t, u \in Q \X K : f[t] = f[u] => t = u
  <2> SUFFICES ASSUME NEW t \in Q \X K, NEW u \in Q \X K, f[t] = f[u]
               PROVE  t = u
    OBVIOUS
  <2>1. t[1] = u[1] /\ t[2] = u[2]
    BY <1>4
  <2> HIDE DEF f, Q
  <2> QED
    BY <2>1
<1>7. f \in [Q \X K -> H]
  BY <1>4
<1> DEFINE P == Q \X K
<1>8. /\ IsFiniteSet(P) /\ Cardinality(P) = q * Cardinality(K) /\ f \in [P -> H]
      /\ \A t, u \in P : f[t] = f[u] => t = u
      /\ \A m \in H : \E t \in P : f[t] = m
  BY <1>3, <1>5, <1>6, <1>7
<1> HIDE DEF P, H, f
<1>9. IsFiniteSet(H) /\ Cardinality(H) = Cardinality(P)
  BY <1>8, OneToOne
<1> QED
  BY <1>1, <1>8, <1>9 DEF H

\* Of any number of consecutive numbers, as many as rounding leaves.
LEMMA RemaindersBetween ==
    ASSUME NEW n \in Nat \ {0}, NEW l \in Nat, NEW K \in SUBSET (0 .. (n - 1))
    PROVE  /\ IsFiniteSet({m \in 0 .. (l - 1) : m % n \in K})
           /\ Cardinality({m \in 0 .. (l - 1) : m % n \in K})
                 \in ((l \div n) * Cardinality(K)) .. (((l + n - 1) \div n) * Cardinality(K))
<1> DEFINE low == l \div n
           high == (l + n - 1) \div n
           S == {m \in 0 .. (l - 1) : m % n \in K}
           X == {m \in 0 .. (n * low - 1) : m % n \in K}
           Y == {m \in 0 .. (n * high - 1) : m % n \in K}
<1>1. low \in Nat /\ n * low <= l
  <2>1. l = n * low + (l % n) /\ low \in Nat /\ l % n \in 0 .. (n - 1)
    OBVIOUS
  <2> HIDE DEF low
  <2> QED
    BY <2>1
<1>2. high \in Nat /\ l <= n * high
  <2> DEFINE b == l + n - 1
             r == b % n
  <2>0. b \in Nat
    OBVIOUS
  <2>1. b = n * high + r /\ high \in Nat /\ r \in 0 .. (n - 1)
    <3>1. high = b \div n
      OBVIOUS
    <3> HIDE DEF high, b
    <3> QED
      BY <2>0, <3>1
  <2>2. b = l + n - 1
    OBVIOUS
  <2> HIDE DEF high, r, b
  <2> QED
    BY <2>1, <2>2
<1> HIDE DEF low, high
<1>3. IsFiniteSet(X) /\ IsFiniteSet(K) /\ Cardinality(X) = low * Cardinality(K)
  BY <1>1, RemaindersCount
<1>4. IsFiniteSet(Y) /\ Cardinality(Y) = high * Cardinality(K)
  BY <1>2, RemaindersCount
<1>5. X \subseteq S /\ S \subseteq Y
  <2>1. n * low \in Nat /\ n * high \in Nat
    BY <1>1, <1>2
  <2> DEFINE a == n * low
             b == n * high
  <2>2. a \in Nat /\ b \in Nat /\ a <= l /\ l <= b
    BY <1>1, <1>2, <2>1
  <2> HIDE DEF a, b
  <2>3. 0 .. (a - 1) \subseteq 0 .. (l - 1) /\ 0 .. (l - 1) \subseteq 0 .. (b - 1)
    BY <2>2
  <2> QED
    BY <2>3 DEF a, b
<1> HIDE DEF S, X, Y
<1>6. IsFiniteSet(S) /\ Cardinality(S) <= Cardinality(Y) /\ Cardinality(X) <= Cardinality(S)
  <2>1. IsFiniteSet(S) /\ Cardinality(S) <= Cardinality(Y)
    BY <1>4, <1>5, FS_Subset
  <2> QED
    BY <1>5, <2>1, FS_Subset
<1>7. Cardinality(S) \in Nat /\ Cardinality(X) \in Nat /\ Cardinality(Y) \in Nat
  BY <1>3, <1>4, <1>6, FS_CardinalityType
<1>8. Cardinality(S) \in Cardinality(X) .. Cardinality(Y)
  BY <1>6, <1>7
<1> QED
  BY <1>3, <1>4, <1>6, <1>8 DEF S, low, high

\* The challenges that let a whole proof through choose, sample by sample, among
\* the heads whose segment was computed.
LEMMA Passing ==
    ASSUME DelayInv, NEW p \in proof, Whole(p)
    PROVE  {c \in Challenges : CheckSampled(p, Input, c)}
              = [1 .. SampleCount -> {head \in 0 .. (Heads - 1) : head % p.segments \notin skipped}]
<1> DEFINE M == {head \in 0 .. (Heads - 1) : head % p.segments \notin skipped}
           C == {c \in Challenges : CheckSampled(p, Input, c)}
<1>1. \A c \in Challenges : c \in C <=> SamplesComputed(p, c)
  BY SampledCheckMeans
<1>2. \A c \in Challenges : SamplesComputed(p, c) <=> \A i \in 1 .. SampleCount : c[i] \in M
  BY DEF SamplesComputed, SampleIndex, Challenges
<1>3. ASSUME NEW c \in C
      PROVE  c \in [1 .. SampleCount -> M]
  <2>1. c \in Challenges
    OBVIOUS
  <2>2. \A i \in 1 .. SampleCount : c[i] \in M
    BY <1>1, <1>2, <2>1
  <2> HIDE DEF M, C
  <2> QED
    BY <2>1, <2>2 DEF Challenges
<1>4. ASSUME NEW c \in [1 .. SampleCount -> M]
      PROVE  c \in C
  <2>1. \A i \in 1 .. SampleCount : c[i] \in M
    <3> HIDE DEF M
    <3> QED
      OBVIOUS
  <2>2. \A m \in M : m \in 0 .. (Heads - 1)
    OBVIOUS
  <2>3. c \in Challenges
    <3> HIDE DEF M, C
    <3> QED
      BY <2>1, <2>2 DEF Challenges
  <2> HIDE DEF M, C
  <2> QED
    BY <1>1, <1>2, <2>1, <2>3
<1> HIDE DEF C, M
<1>5. C = [1 .. SampleCount -> M]
  BY <1>3, <1>4
<1> QED
  BY <1>5 DEF C, M

\* The segments computed are those not skipped.
LEMMA ComputedCount ==
    ASSUME NEW n \in Nat \ {0}, skipped \subseteq 0 .. (n - 1)
    PROVE  /\ Cardinality((0 .. (n - 1)) \ skipped) = n - Cardinality(skipped)
           /\ Cardinality(skipped) \in Nat
           /\ (0 .. (n - 1)) \ skipped # {} => Cardinality(skipped) < n
<1> DEFINE r == n - 1
           I == 0 .. r
<1>1. 0 \in Int /\ r \in Int /\ ~ 0 > r /\ r - 0 + 1 = n
  OBVIOUS
<1> HIDE DEF r
<1>2. IsFiniteSet(0 .. r) /\ Cardinality(0 .. r) = IF 0 > r THEN 0 ELSE r - 0 + 1
  BY <1>1, FS_Interval
<1>3. IsFiniteSet(I) /\ Cardinality(I) = n
  BY <1>1, <1>2
<1>4. skipped \subseteq I
  BY DEF r
<1> HIDE DEF I
<1>5. I \cap skipped = skipped /\ IsFiniteSet(skipped)
  BY <1>3, <1>4, FS_Subset
<1>6. /\ Cardinality(I \ skipped) = Cardinality(I) - Cardinality(I \cap skipped)
      /\ IsFiniteSet(I \ skipped)
  BY <1>3, FS_Difference
<1> DEFINE x == Cardinality(I \ skipped)
           y == Cardinality(skipped)
<1>7. /\ x \in Nat /\ y \in Nat
      /\ x = 0 <=> I \ skipped = {}
  BY <1>5, <1>6, FS_CardinalityType, FS_EmptySet
<1>8. x = n - y
  <2>1. Cardinality(I \cap skipped) = y
    BY <1>5
  <2> HIDE DEF x, y
  <2>2. x = n - Cardinality(I \cap skipped)
    BY <1>3, <1>6 DEF x
  <2> QED
    BY <2>1, <2>2
<1>9. I = 0 .. (n - 1)
  BY DEF I, r
<1>10. x # 0 => y < n
  <2> HIDE DEF x, y
  <2> QED
    BY <1>7, <1>8
<1> QED
  BY <1>7, <1>8, <1>9, <1>10

\* Their number.
LEMMA PassingCount ==
    ASSUME DelayInv, NEW p \in proof, Whole(p)
    PROVE  LET n == p.segments
               computed == n - Cardinality(skipped)
               harmless == Cardinality({head \in 0 .. (Heads - 1) : head % n \notin skipped})
           IN  /\ Cardinality({c \in Challenges : CheckSampled(p, Input, c)}) = EverySample(harmless)
               /\ harmless \in ((Heads \div n) * computed)
                                .. (((Heads + n - 1) \div n) * computed)
<1> DEFINE n == p.segments
           M == {head \in 0 .. (Heads - 1) : head % n \notin skipped}
           K == (0 .. (n - 1)) \ skipped
           N == {head \in 0 .. (Heads - 1) : head % n \in K}
           harmless == Cardinality(M)
<1>1. /\ n \in Nat \ {0} /\ Heads \in Nat /\ SampleCount \in Nat
      /\ skipped \subseteq 0 .. (n - 1)
  <2>1. /\ n \in Nat \ {0} /\ Len(p.checkpoints) = n + 1
        /\ skipped \subseteq 0 .. (Len(p.checkpoints) - 2)
    BY DEF DelayInv, WellFormed, Whole
  <2> QED
    BY <2>1, DelayAssumption
<1> HIDE DEF n
<1>2. M = N
  <2>1. \A head \in 0 .. (Heads - 1) : head % n \in 0 .. (n - 1)
    BY <1>1
  <2> QED
    BY <2>1
<1>3. K \in SUBSET (0 .. (n - 1))
  OBVIOUS
<1>4. Cardinality(K) = n - Cardinality(skipped)
  BY <1>1, ComputedCount
<1> HIDE DEF K
<1>5. /\ IsFiniteSet({m \in 0 .. (Heads - 1) : m % n \in K})
      /\ Cardinality({m \in 0 .. (Heads - 1) : m % n \in K})
            \in ((Heads \div n) * Cardinality(K)) .. (((Heads + n - 1) \div n) * Cardinality(K))
  BY <1>1, <1>3, RemaindersBetween
<1>6. IsFiniteSet(M)
  BY <1>2, <1>5
<1>7. harmless \in ((Heads \div n) * (n - Cardinality(skipped)))
                      .. (((Heads + n - 1) \div n) * (n - Cardinality(skipped)))
  <2>1. harmless \in ((Heads \div n) * Cardinality(K)) .. (((Heads + n - 1) \div n) * Cardinality(K))
    BY <1>2, <1>5
  <2> HIDE DEF M, harmless
  <2> QED
    BY <1>4, <2>1
<1>8. {c \in Challenges : CheckSampled(p, Input, c)} = [1 .. SampleCount -> M]
  BY Passing DEF n
<1>9. PICK h : Multiplied(h, harmless, SampleCount) /\ EverySample(harmless) = h[SampleCount]
  <2> HIDE DEF harmless
  <2> QED
    BY EverySampleIs
<1> HIDE DEF M
<1>10. Cardinality([1 .. SampleCount -> M]) = h[SampleCount]
  BY <1>1, <1>6, <1>9, ChoicesCount
<1>11. Cardinality({c \in Challenges : CheckSampled(p, Input, c)}) = EverySample(harmless)
  BY <1>8, <1>9, <1>10
<1> QED
  BY <1>7, <1>11 DEF n, M

\* There is one proof at most.
OneProof == \A p, q \in proof : p = q

LEMMA OneProofSpec == DelaySpec => []OneProof
<1>1. DelayInit => OneProof
  BY DEF DelayInit, OneProof
<1>2. OneProof /\ [DelayNext]_delayVars => OneProof'
  BY DEF OneProof, DelayNext, delayVars, RevealForSeed, StartDelay, ComputeSegment,
         SkipSegment, AddCheckpoint, PublishProof, AdoptSeed
<1> QED
  BY <1>1, <1>2, PTL DEF DelaySpec

\* Of all the challenges, those that let a prover through that skipped some of
\* its segments are the share vdf.rs computes, up to rounding; no challenge lets
\* through one that began elsewhere or took too many or too few checkpoints, and
\* none one that skipped everything (DelayProof::check_sampled, sample_index).
THEOREM SamplingIsSound == DelaySpec => []SamplingCatchesSkippers
<1>1. ASSUME DelayInv, SeedInv, OneProof, NEW p \in proof, published
      PROVE  LET n == p.segments
                 whole == Len(p.checkpoints) = n + 1 /\ p.checkpoints[1] = Input
                 computed == n - Cardinality(skipped)
                 harmless == Cardinality({head \in 0 .. (Heads - 1) : head % n \notin skipped})
                 passing == Cardinality({c \in Challenges : CheckSampled(p, Input, c)})
             IN  /\ passing = IF whole THEN EverySample(harmless) ELSE 0
                 /\ whole => harmless \in ((Heads \div n) * computed)
                                          .. (((Heads + n - 1) \div n) * computed)
                 /\ CheckFully(p, Input) <=> whole /\ skipped = {}
                 /\ CheckFully(p, Input) => Output(p) = Iterate(Input, p.iterations)
                 /\ seed # {} => whole /\ Cardinality(skipped) < n
  <2> DEFINE n == p.segments
             computed == n - Cardinality(skipped)
             harmless == Cardinality({head \in 0 .. (Heads - 1) : head % n \notin skipped})
             P == {c \in Challenges : CheckSampled(p, Input, c)}
  <2>1. Whole(p) => /\ Cardinality(P) = EverySample(harmless)
                    /\ harmless \in ((Heads \div n) * computed)
                                     .. (((Heads + n - 1) \div n) * computed)
    BY <1>1, PassingCount
  <2>2. ~ Whole(p) => Cardinality(P) = 0
    <3>1. ~ Whole(p) => P = {}
      BY <1>1, SampledCheckMeans
    <3> QED
      BY <3>1, FS_EmptySet
  <2>3. /\ CheckFully(p, Input) <=> Whole(p) /\ skipped = {}
        /\ CheckFully(p, Input) => Output(p) = Iterate(Input, p.iterations)
    BY <1>1, FullCheckMeans DEF Whole, Evaluated
  <2>4. seed # {} => Whole(p) /\ Cardinality(skipped) < n
    <3> SUFFICES ASSUME seed # {}
                 PROVE  Whole(p) /\ Cardinality(skipped) < n
      OBVIOUS
    <3>1. PICK q \in proof, challenge \in Challenges : CheckSampled(q, Input, challenge)
      BY <1>1 DEF SeedInv
    <3>2. q = p
      BY <1>1 DEF OneProof
    <3>3. Whole(p) /\ SamplesComputed(p, challenge)
      BY <1>1, <3>1, <3>2, SampledCheckMeans
    <3>4. n \in Nat \ {0} /\ skipped \subseteq 0 .. (n - 1)
      <4>1. /\ n \in Nat \ {0} /\ Len(p.checkpoints) = n + 1
            /\ skipped \subseteq 0 .. (Len(p.checkpoints) - 2)
        BY <1>1, <3>3 DEF DelayInv, WellFormed, Whole
      <4> QED
        BY <4>1
    <3>5. SampleIndex(challenge, 1, n) \in (0 .. (n - 1)) \ skipped
      <4>1. 1 \in 1 .. SampleCount
        BY DelayAssumption
      <4> QED
        BY <3>3, <3>4, <4>1, SampleIsSegment DEF SamplesComputed
    <3> QED
      BY <3>3, <3>4, <3>5, ComputedCount
  <2> QED
    BY <2>1, <2>2, <2>3, <2>4 DEF Whole
<1> QED
  <2>1. DelayInv /\ SeedInv /\ OneProof => SamplingCatchesSkippers
    BY <1>1 DEF SamplingCatchesSkippers
  <2> QED
    BY <2>1, SpecInv, SeedSpec, OneProofSpec, PTL

----------------------------------------------------------------------------
(* Inclusion in a block. *)

Hashes(leaves) == [i \in DOMAIN leaves |-> LeafHash(leaves[i])]
\* h satisfies the recursion of the levels up to n.
Folded(h, leaves, n) ==
    h = [d \in 0..n |-> IF d = 0 THEN Hashes(leaves) ELSE FoldLevel(h[d - 1])]

\* There are levels, each folded from the one below.
LEMMA LevelsAre ==
    ASSUME NEW leaves, Len(leaves) \in Nat
    PROVE  Folded(Levels(leaves), leaves, Len(leaves))
<1> DEFINE n == Len(leaves)
           B == {m \in 0..n : \E h : Folded(h, leaves, m)}
<1>1. 0 \in B
  <2>1. Folded([d \in 0..0 |-> Hashes(leaves)], leaves, 0)
    BY DEF Folded
  <2> QED
    BY <2>1
<1>2. ASSUME NEW m \in 1..n, m - 1 \in B
      PROVE  m \in B
  <2>1. PICK h : Folded(h, leaves, m - 1)
    BY <1>2
  <2> DEFINE g == [d \in 0..m |-> IF d = m THEN FoldLevel(h[m - 1]) ELSE h[d]]
  <2>2. ASSUME NEW d \in 0..m
        PROVE  g[d] = IF d = 0 THEN Hashes(leaves) ELSE FoldLevel(g[d - 1])
    <3>1. CASE d = m
      <4>1. d - 1 \in 0..m /\ d - 1 # m /\ d # 0
        BY <3>1
      <4> QED
        BY <3>1, <4>1
    <3>2. CASE d # m
      <4>1. d \in 0..(m - 1) /\ (d # 0 => d - 1 \in 0..m /\ d - 1 # m)
        BY <3>2
      <4>2. h[d] = IF d = 0 THEN Hashes(leaves) ELSE FoldLevel(h[d - 1])
        BY <2>1, <4>1 DEF Folded
      <4>3. g[d] = h[d] /\ (d # 0 => g[d - 1] = h[d - 1])
        BY <3>2, <4>1
      <4> HIDE DEF g
      <4> QED
        BY <4>2, <4>3
    <3> QED
      BY <3>1, <3>2
  <2>3. g = [d \in 0..m |-> g[d]]
    OBVIOUS
  <2> HIDE DEF g
  <2>4. Folded(g, leaves, m)
    BY <2>2, <2>3 DEF Folded
  <2> QED
    BY <2>4
<1>3. n \in B
  <2>1. n \in Nat
    OBVIOUS
  <2>2. \A m \in 1..n : m - 1 \in B => m \in B
    BY <1>2
  <2> HIDE DEF B, n
  <2>3. \A m \in 0..n : m \in B
    BY <1>1, <2>1, <2>2, Climb
  <2> QED
    BY <2>1, <2>3
<1>4. PICK h : Folded(h, leaves, n)
  BY <1>3
<1> QED
  BY <1>4, Zenon DEF Levels, Folded, Hashes

\* A level of m nodes.
Shaped(level, m) == m \in Nat \ {0} /\ DOMAIN level = 1..m /\ Len(level) = m

\* Folding halves a level, rounded up.
LEMMA FoldShapes ==
    ASSUME NEW level, NEW m, Shaped(level, m)
    PROVE  Shaped(FoldLevel(level), (m + 1) \div 2)
<1>1. (m + 1) \div 2 \in Nat \ {0}
  BY DEF Shaped
<1>2. DOMAIN FoldLevel(level) = 1..((m + 1) \div 2)
  BY DEF Shaped, FoldLevel
<1> QED
  BY <1>1, <1>2 DEF Shaped, FoldLevel

\* Every level has nodes, and fewer than the one below until one is left.
LEMMA LevelShapes ==
    ASSUME NEW n, NEW leaves, Shaped(leaves, n)
    PROVE  \A d \in 0..n : \E m \in Nat : Shaped(Levels(leaves)[d], m) /\ (m = 1 \/ m + d <= n)
<1> DEFINE L == Levels(leaves)
           B == {d \in 0..n : \E m \in Nat : Shaped(L[d], m) /\ (m = 1 \/ m + d <= n)}
<1>1. n \in Nat \ {0} /\ Len(leaves) = n /\ DOMAIN leaves = 1..n
  BY DEF Shaped
<1>2. \A d \in 0..n : L[d] = IF d = 0 THEN Hashes(leaves) ELSE FoldLevel(L[d - 1])
  <2>1. Folded(L, leaves, n)
    BY <1>1, LevelsAre
  <2> HIDE DEF L
  <2> QED
    BY <2>1 DEF Folded
<1> HIDE DEF L
<1>3. 0 \in B
  <2>1. L[0] = Hashes(leaves)
    BY <1>1, <1>2
  <2>2. Hashes(leaves) = [i \in 1..n |-> LeafHash(leaves[i])]
    BY <1>1 DEF Hashes
  <2>3. Shaped(Hashes(leaves), n)
    BY <1>1, <2>2 DEF Shaped
  <2> QED
    BY <1>1, <2>1, <2>3
<1>4. ASSUME NEW d \in 1..n, d - 1 \in B
      PROVE  d \in B
  <2>1. PICK m \in Nat : Shaped(L[d - 1], m) /\ (m = 1 \/ m + (d - 1) <= n)
    BY <1>4
  <2> DEFINE half == (m + 1) \div 2
  <2>2. L[d] = FoldLevel(L[d - 1])
    BY <1>1, <1>2
  <2>3. Shaped(L[d], half)
    BY <2>1, <2>2, FoldShapes
  <2>4. half \in Nat /\ (half = 1 \/ half + d <= n)
    <3>1. m # 0
      BY <2>1 DEF Shaped
    <3>2. CASE m = 1
      BY <3>2
    <3>3. CASE m # 1
      <4>1. half <= m - 1 /\ half \in Nat
        BY <3>1, <3>3
      <4> QED
        BY <2>1, <3>3, <4>1, <1>1
    <3> QED
      BY <3>2, <3>3
  <2> QED
    BY <2>3, <2>4
<1> HIDE DEF B
<1>5. \A d \in 0..n : d \in B
  BY <1>1, <1>3, <1>4, Climb
<1> QED
  BY <1>5 DEF B, L

\* The root stands alone in its level, and below it no node does.
LEMMA HeightIs ==
    ASSUME NEW n, NEW leaves, Shaped(leaves, n)
    PROVE  /\ Height(leaves) \in 0..n
           /\ Shaped(Levels(leaves)[Height(leaves)], 1)
           /\ \A d \in 0..(Height(leaves) - 1) :
                 \E m \in Nat : m > 1 /\ Shaped(Levels(leaves)[d], m)
<1> DEFINE L == Levels(leaves)
           S == {d \in DOMAIN L : Len(L[d]) = 1}
           height == Min(S)
<1>1. n \in Nat \ {0} /\ Len(leaves) = n
  BY DEF Shaped
<1>2. DOMAIN L = 0..n
  <2>1. Folded(L, leaves, n)
    BY <1>1, LevelsAre
  <2> HIDE DEF L
  <2> QED
    BY <2>1 DEF Folded
<1>3. \A d \in 0..n : \E m \in Nat : Shaped(L[d], m) /\ (m = 1 \/ m + d <= n)
  BY LevelShapes
<1>4. Height(leaves) = height
  BY DEF Height
<1> HIDE DEF L
<1>5. n \in S
  <2>1. PICK m \in Nat : Shaped(L[n], m) /\ (m = 1 \/ m + n <= n)
    BY <1>1, <1>3
  <2> QED
    BY <1>1, <1>2, <2>1 DEF Shaped
<1>6. IsFiniteSet(S) /\ S \subseteq Int
  <2>1. IsFiniteSet(0..n) /\ 0..n \subseteq Int
    BY <1>1, FS_Interval
  <2>2. S \subseteq 0..n
    BY <1>2
  <2> HIDE DEF S
  <2> QED
    BY <2>1, <2>2, FS_Subset
<1>7. height \in S /\ \A d \in S : height <= d
  <2> HIDE DEF S
  <2> QED
    BY <1>5, <1>6, MinIsSmallest
<1> HIDE DEF height
<1>8. height \in 0..n /\ Len(L[height]) = 1
  BY <1>2, <1>7
<1>9. Shaped(L[height], 1)
  BY <1>3, <1>8 DEF Shaped
<1>10. ASSUME NEW d \in 0..(height - 1)
       PROVE  \E m \in Nat : m > 1 /\ Shaped(L[d], m)
  <2>1. d \in 0..n /\ ~(height <= d)
    BY <1>1, <1>8
  <2>2. Len(L[d]) # 1
    BY <1>2, <1>7, <2>1
  <2>3. PICK m \in Nat : Shaped(L[d], m)
    BY <1>3, <2>1
  <2>4. m > 1
    BY <2>2, <2>3 DEF Shaped
  <2> QED
    BY <2>3, <2>4
<1> QED
  BY <1>4, <1>8, <1>9, <1>10 DEF L

\* h halves index up to n.
Halves(h, index, n) == h = [d \in 0..n |-> IF d = 0 THEN index ELSE h[d - 1] \div 2]

\* There are positions, each half of the one below.
LEMMA PositionsAre ==
    ASSUME NEW index, NEW height \in Nat
    PROVE  Halves(Positions(index, height), index, height)
<1> DEFINE n == height
           B == {m \in 0..n : \E h : Halves(h, index, m)}
<1>1. 0 \in B
  <2>1. Halves([d \in 0..0 |-> index], index, 0)
    BY DEF Halves
  <2> QED
    BY <2>1
<1>2. ASSUME NEW m \in 1..n, m - 1 \in B
      PROVE  m \in B
  <2>1. PICK h : Halves(h, index, m - 1)
    BY <1>2
  <2> DEFINE g == [d \in 0..m |-> IF d = m THEN h[m - 1] \div 2 ELSE h[d]]
  <2>2. ASSUME NEW d \in 0..m
        PROVE  g[d] = IF d = 0 THEN index ELSE g[d - 1] \div 2
    <3>1. CASE d = m
      <4>1. d - 1 \in 0..m /\ d - 1 # m /\ d # 0
        BY <3>1
      <4> QED
        BY <3>1, <4>1
    <3>2. CASE d # m
      <4>1. d \in 0..(m - 1) /\ (d # 0 => d - 1 \in 0..m /\ d - 1 # m)
        BY <3>2
      <4>2. h[d] = IF d = 0 THEN index ELSE h[d - 1] \div 2
        BY <2>1, <4>1 DEF Halves
      <4>3. g[d] = h[d] /\ (d # 0 => g[d - 1] = h[d - 1])
        BY <3>2, <4>1
      <4> HIDE DEF g
      <4> QED
        BY <4>2, <4>3
    <3> QED
      BY <3>1, <3>2
  <2>3. g = [d \in 0..m |-> g[d]]
    OBVIOUS
  <2> HIDE DEF g
  <2>4. Halves(g, index, m)
    BY <2>2, <2>3 DEF Halves
  <2> QED
    BY <2>4
<1>3. n \in B
  <2>1. n \in Nat
    OBVIOUS
  <2>2. \A m \in 1..n : m - 1 \in B => m \in B
    BY <1>2
  <2> HIDE DEF B, n
  <2>3. \A m \in 0..n : m \in B
    BY <1>1, <2>1, <2>2, Climb
  <2> QED
    BY <2>1, <2>3
<1>4. PICK h : Halves(h, index, n)
  BY <1>3
<1> QED
  BY <1>4, Zenon DEF Positions, Halves

\* h runs up the first n of the steps.
Runs(h, leaf, steps, n) ==
    h = [d \in 0..n |-> IF d = 0 THEN LeafHash(leaf) ELSE TakeStep(steps[d], h[d - 1])]

\* There are such running values, and the last is what is computed.
LEMMA RunsAre ==
    ASSUME NEW leaf, NEW shown, Len(shown.steps) \in Nat
    PROVE  \E h : /\ Runs(h, leaf, shown.steps, Len(shown.steps))
                 /\ RootFromProof(leaf, shown) = h[Len(shown.steps)]
<1> DEFINE steps == shown.steps
           run == CHOOSE h : Runs(h, leaf, steps, Len(steps))
<1> DEFINE n == Len(steps)
           B == {m \in 0..n : \E h : Runs(h, leaf, steps, m)}
<1>1. 0 \in B
  <2>1. Runs([d \in 0..0 |-> LeafHash(leaf)], leaf, steps, 0)
    BY DEF Runs
  <2> QED
    BY <2>1
<1>2. ASSUME NEW m \in 1..n, m - 1 \in B
      PROVE  m \in B
  <2>1. PICK h : Runs(h, leaf, steps, m - 1)
    BY <1>2
  <2> DEFINE g == [d \in 0..m |-> IF d = m THEN TakeStep(steps[m], h[m - 1]) ELSE h[d]]
  <2>2. ASSUME NEW d \in 0..m
        PROVE  g[d] = IF d = 0 THEN LeafHash(leaf) ELSE TakeStep(steps[d], g[d - 1])
    <3>1. CASE d = m
      <4>1. d - 1 \in 0..m /\ d - 1 # m /\ d # 0
        BY <3>1
      <4> QED
        BY <3>1, <4>1
    <3>2. CASE d # m
      <4>1. d \in 0..(m - 1) /\ (d # 0 => d - 1 \in 0..m /\ d - 1 # m)
        BY <3>2
      <4>2. h[d] = IF d = 0 THEN LeafHash(leaf) ELSE TakeStep(steps[d], h[d - 1])
        BY <2>1, <4>1 DEF Runs
      <4>3. g[d] = h[d] /\ (d # 0 => g[d - 1] = h[d - 1])
        BY <3>2, <4>1
      <4> HIDE DEF g
      <4> QED
        BY <4>2, <4>3
    <3> QED
      BY <3>1, <3>2
  <2>3. g = [d \in 0..m |-> g[d]]
    OBVIOUS
  <2> HIDE DEF g
  <2>4. Runs(g, leaf, steps, m)
    BY <2>2, <2>3 DEF Runs
  <2> QED
    BY <2>4
<1>3. n \in B
  <2>1. n \in Nat
    OBVIOUS
  <2>2. \A m \in 1..n : m - 1 \in B => m \in B
    BY <1>2
  <2> HIDE DEF B, n
  <2>3. \A m \in 0..n : m \in B
    BY <1>1, <2>1, <2>2, Climb
  <2> QED
    BY <2>1, <2>3
<1>4. PICK h : Runs(h, leaf, steps, n)
  BY <1>3
<1>5. Runs(run, leaf, steps, n)
  BY <1>4, Zenon
<1>6. RootFromProof(leaf, shown) = run[n]
  BY Zenon DEF RootFromProof, Runs
<1> QED
  BY <1>5, <1>6

\* A level and the one below.
LEMMA LevelIs ==
    ASSUME NEW n, NEW leaves, Shaped(leaves, n)
    PROVE  /\ n \in Nat \ {0} /\ Len(leaves) = n
           /\ Levels(leaves)[0] = [i \in 1..n |-> LeafHash(leaves[i])]
           /\ \A d \in 1..n : Levels(leaves)[d] = FoldLevel(Levels(leaves)[d - 1])
<1> DEFINE L == Levels(leaves)
<1>1. n \in Nat \ {0} /\ Len(leaves) = n /\ DOMAIN leaves = 1..n
  BY DEF Shaped
<1>2. Folded(L, leaves, n)
  BY <1>1, LevelsAre
<1> HIDE DEF L
<1>3. \A d \in 0..n : L[d] = IF d = 0 THEN Hashes(leaves) ELSE FoldLevel(L[d - 1])
  BY <1>2 DEF Folded
<1>4. L[0] = Hashes(leaves) /\ \A d \in 1..n : L[d] = FoldLevel(L[d - 1])
  BY <1>1, <1>3
<1>5. Hashes(leaves) = [i \in 1..n |-> LeafHash(leaves[i])]
  BY <1>1 DEF Hashes
<1> QED
  BY <1>1, <1>4, <1>5 DEF L

\* The root, when there are leaves.
LEMMA RootIs ==
    ASSUME NEW n, NEW leaves, Shaped(leaves, n)
    PROVE  ListRoot(leaves) = Levels(leaves)[Height(leaves)][1]
<1>1. leaves # <<>>
  BY DEF Shaped
<1> QED
  BY <1>1 DEF ListRoot

\* A node of a folded level.
LEMMA FoldAt ==
    ASSUME NEW level, NEW m, Shaped(level, m), NEW i \in 1..((m + 1) \div 2)
    PROVE  FoldLevel(level)[i] =
              IF 2 * i <= m THEN NodeHash(level[2 * i - 1], level[2 * i]) ELSE level[2 * i - 1]
BY DEF FoldLevel, Shaped

\* One step of a proof goes from a node to the one above it.
LEMMA StepLifts ==
    ASSUME NEW level, NEW m, Shaped(level, m), m > 1, NEW p \in 0..(m - 1)
    PROVE  /\ p \div 2 \in 0..((m + 1) \div 2 - 1)
           /\ TakeStep(ProofStep(level, p), level[p + 1]) = FoldLevel(level)[p \div 2 + 1]
<1> DEFINE half == p \div 2
           i == half + 1
<1>1. m \in Nat /\ Len(level) = m
  BY DEF Shaped
<1>2. half \in 0..((m + 1) \div 2 - 1) /\ i \in 1..((m + 1) \div 2)
  BY <1>1
<1>3. FoldLevel(level)[i] =
         IF 2 * i <= m THEN NodeHash(level[2 * i - 1], level[2 * i]) ELSE level[2 * i - 1]
  <2> HIDE DEF i
  <2> QED
    BY <1>2, FoldAt
<1>4. CASE p = m - 1 /\ m % 2 = 1
  <2>1. 2 * i = m + 1
    BY <1>1, <1>4
  <2>2. 2 * i - 1 = p + 1 /\ ~(2 * i <= m)
    BY <1>1, <1>4, <2>1
  <2>3. ProofStep(level, p) = <<"promoted">>
    BY <1>1, <1>4 DEF ProofStep
  <2>4. TakeStep(<<"promoted">>, level[p + 1]) = level[p + 1]
    BY DEF TakeStep
  <2> HIDE DEF i
  <2> QED
    BY <1>2, <1>3, <2>2, <2>3, <2>4 DEF i
<1>5. CASE p % 2 = 0 /\ ~(p = m - 1 /\ m % 2 = 1)
  <2>1. 2 * i = p + 2 /\ 2 * i <= m
    BY <1>1, <1>5
  <2>2. ProofStep(level, p) = <<"right", level[p + 2]>>
    BY <1>1, <1>5 DEF ProofStep
  <2>3. TakeStep(<<"right", level[p + 2]>>, level[p + 1]) = NodeHash(level[p + 1], level[p + 2])
    BY DEF TakeStep
  <2>4. 2 * i - 1 = p + 1
    BY <2>1
  <2> HIDE DEF i
  <2> QED
    BY <1>2, <1>3, <2>1, <2>2, <2>3, <2>4 DEF i
<1>6. CASE p % 2 # 0
  <2>1. 2 * i = p + 1 /\ 2 * i <= m
    BY <1>1, <1>6
  <2>2. ProofStep(level, p) = <<"left", level[p]>>
    <3>1. ~(p = m - 1 /\ m % 2 = 1)
      BY <1>1, <1>6
    <3> QED
      BY <1>1, <1>6, <3>1 DEF ProofStep
  <2>3. TakeStep(<<"left", level[p]>>, level[p + 1]) = NodeHash(level[p], level[p + 1])
    BY DEF TakeStep
  <2>4. 2 * i - 1 = p
    BY <2>1
  <2> HIDE DEF i
  <2> QED
    BY <1>2, <1>3, <2>1, <2>2, <2>3, <2>4 DEF i
<1> QED
  BY <1>4, <1>5, <1>6

\* A leaf's own proof ends in the root.
LEMMA HonestProofsArrive ==
    ASSUME NEW n, NEW leaves, Shaped(leaves, n), NEW i \in 1..n
    PROVE  RootFromProof(leaves[i], ListProof(leaves, i - 1)) = ListRoot(leaves)
<1> DEFINE L == Levels(leaves)
           height == Height(leaves)
           p == Positions(i - 1, height)
           shown == ListProof(leaves, i - 1)
<1>1. /\ n \in Nat \ {0} /\ L[0] = [j \in 1..n |-> LeafHash(leaves[j])]
      /\ \A d \in 1..n : L[d] = FoldLevel(L[d - 1])
  BY LevelIs
<1>2. /\ height \in 0..n /\ Shaped(L[height], 1)
      /\ \A d \in 0..(height - 1) : \E m \in Nat : m > 1 /\ Shaped(L[d], m)
  BY HeightIs
<1>3. Halves(p, i - 1, height)
  BY <1>2, PositionsAre
<1>4. shown.steps = [d \in 1..height |-> ProofStep(L[d - 1], p[d - 1])]
  BY DEF ListProof
<1>5. ListRoot(leaves) = L[height][1]
  BY RootIs
<1> HIDE DEF L, height, p, shown
<1>6. Len(shown.steps) = height
  BY <1>1, <1>2, <1>4
<1>7. PICK h : /\ Runs(h, leaves[i], shown.steps, height)
               /\ RootFromProof(leaves[i], shown) = h[height]
  <2>1. Len(shown.steps) \in Nat
    BY <1>1, <1>2, <1>6
  <2> QED
    BY <1>6, <2>1, RunsAre
<1>8. /\ p[0] = i - 1 /\ \A d \in 1..height : p[d] = p[d - 1] \div 2
      /\ h[0] = LeafHash(leaves[i])
      /\ \A d \in 1..height : h[d] = TakeStep(shown.steps[d], h[d - 1])
  <2>1. \A d \in 0..height : p[d] = IF d = 0 THEN i - 1 ELSE p[d - 1] \div 2
    BY <1>3 DEF Halves
  <2>2. \A d \in 0..height :
           h[d] = IF d = 0 THEN LeafHash(leaves[i]) ELSE TakeStep(shown.steps[d], h[d - 1])
    BY <1>7 DEF Runs
  <2> QED
    BY <1>1, <1>2, <2>1, <2>2
<1> DEFINE B == {d \in 0..height :
                   \E m \in Nat : /\ Shaped(L[d], m) /\ p[d] \in 0..(m - 1)
                                  /\ h[d] = L[d][p[d] + 1]}
<1>9. 0 \in B
  <2>1. Shaped(L[0], n)
    BY <1>1 DEF Shaped
  <2>2. h[0] = L[0][p[0] + 1] /\ p[0] \in 0..(n - 1)
    BY <1>1, <1>8
  <2>3. n \in Nat /\ 0 \in 0..height
    BY <1>1, <1>2
  <2> QED
    BY <2>1, <2>2, <2>3, Zenon
<1>10. ASSUME NEW d \in 1..height, d - 1 \in B
       PROVE  d \in B
  <2>1. PICK m \in Nat : /\ Shaped(L[d - 1], m) /\ p[d - 1] \in 0..(m - 1)
                         /\ h[d - 1] = L[d - 1][p[d - 1] + 1]
    BY <1>10
  <2>2. m > 1
    <3>1. d - 1 \in 0..(height - 1)
      BY <1>1, <1>2
    <3>2. PICK k \in Nat : k > 1 /\ Shaped(L[d - 1], k)
      BY <1>2, <3>1
    <3> QED
      BY <2>1, <3>2 DEF Shaped
  <2>3. /\ p[d - 1] \div 2 \in 0..((m + 1) \div 2 - 1)
        /\ TakeStep(ProofStep(L[d - 1], p[d - 1]), L[d - 1][p[d - 1] + 1])
              = FoldLevel(L[d - 1])[p[d - 1] \div 2 + 1]
    BY <2>1, <2>2, StepLifts
  <2>4. L[d] = FoldLevel(L[d - 1]) /\ p[d] = p[d - 1] \div 2
        /\ h[d] = TakeStep(ProofStep(L[d - 1], p[d - 1]), h[d - 1])
    BY <1>1, <1>2, <1>4, <1>8
  <2>5. Shaped(L[d], (m + 1) \div 2)
    BY <2>1, <2>4, FoldShapes
  <2>6. (m + 1) \div 2 \in Nat
    BY <2>1
  <2>7. h[d] = L[d][p[d] + 1] /\ p[d] \in 0..((m + 1) \div 2 - 1)
    BY <2>1, <2>3, <2>4
  <2> QED
    BY <2>5, <2>6, <2>7
<1> HIDE DEF B
<1>11. \A d \in 0..height : d \in B
  <2>1. height \in Nat
    BY <1>1, <1>2
  <2> QED
    BY <2>1, <1>9, <1>10, Climb
<1>12. height \in B
  BY <1>1, <1>2, <1>11
<1>13. PICK m \in Nat : /\ Shaped(L[height], m) /\ p[height] \in 0..(m - 1)
                        /\ h[height] = L[height][p[height] + 1]
  BY <1>12 DEF B
<1>14. p[height] = 0
  BY <1>2, <1>13 DEF Shaped
<1> QED
  BY <1>5, <1>7, <1>13, <1>14 DEF shown

\* Everything hashed on the way from the leaves to the root.
ListDigests(leaves) ==
    UNION {{Levels(leaves)[d][i] : i \in DOMAIN Levels(leaves)[d]} : d \in 0..Len(leaves)}

\* It is a leaf's digest, or that of two digests.
LEMMA DigestsAre ==
    ASSUME NEW n, NEW leaves, Shaped(leaves, n), NEW x \in ListDigests(leaves)
    PROVE  \/ \E i \in 1..n : x = LeafHash(leaves[i])
           \/ \E a, b \in ListDigests(leaves) : x = NodeHash(a, b)
<1> DEFINE L == Levels(leaves)
           D == ListDigests(leaves)
           Kind(y) == \/ \E i \in 1..n : y = LeafHash(leaves[i])
                      \/ \E a, b \in D : y = NodeHash(a, b)
           B == {d \in 0..n : \A i \in DOMAIN L[d] : Kind(L[d][i])}
<1>1. /\ n \in Nat \ {0} /\ Len(leaves) = n /\ L[0] = [j \in 1..n |-> LeafHash(leaves[j])]
      /\ \A d \in 1..n : L[d] = FoldLevel(L[d - 1])
  BY LevelIs
<1>2. \A d \in 0..n : \E m \in Nat : Shaped(L[d], m)
  BY LevelShapes
<1>3. D = UNION {{L[d][i] : i \in DOMAIN L[d]} : d \in 0..n}
  BY <1>1 DEF ListDigests
<1> HIDE DEF L, D
<1>4. 0 \in B
  BY <1>1
<1>5. ASSUME NEW d \in 1..n, d - 1 \in B
      PROVE  d \in B
  <2>1. PICK m \in Nat : Shaped(L[d - 1], m)
    BY <1>1, <1>2
  <2>2. DOMAIN L[d - 1] = 1..m /\ d - 1 \in 0..n /\ L[d] = FoldLevel(L[d - 1])
    BY <1>1, <2>1 DEF Shaped
  <2>3. DOMAIN L[d] = 1..((m + 1) \div 2)
    BY <2>1, <2>2, FoldShapes DEF Shaped
  <2> SUFFICES ASSUME NEW i \in 1..((m + 1) \div 2) PROVE Kind(L[d][i])
    BY <2>3
  <2>4. L[d][i] = IF 2 * i <= m THEN NodeHash(L[d - 1][2 * i - 1], L[d - 1][2 * i])
                  ELSE L[d - 1][2 * i - 1]
    BY <2>1, <2>2, FoldAt
  <2>5. 2 * i - 1 \in 1..m /\ (2 * i <= m => 2 * i \in 1..m)
    OBVIOUS
  <2>6. ASSUME NEW k \in 1..m
        PROVE  L[d - 1][k] \in D /\ Kind(L[d - 1][k])
    <3>1. k \in DOMAIN L[d - 1]
      BY <2>2
    <3>2. L[d - 1][k] \in {L[d - 1][j] : j \in DOMAIN L[d - 1]}
      BY <3>1
    <3>3. L[d - 1][k] \in D
      BY <1>3, <2>2, <3>2
    <3> HIDE DEF Kind
    <3>4. Kind(L[d - 1][k])
      BY <1>5, <3>1
    <3> QED
      BY <3>3, <3>4
  <2> HIDE DEF Kind
  <2>7. CASE 2 * i <= m
    <3>1. L[d - 1][2 * i - 1] \in D /\ L[d - 1][2 * i] \in D
      BY <2>5, <2>6, <2>7
    <3> QED
      BY <2>4, <2>7, <3>1 DEF Kind
  <2>8. CASE ~(2 * i <= m)
    BY <2>4, <2>5, <2>6, <2>8
  <2> QED
    BY <2>7, <2>8
<1> HIDE DEF B, Kind
<1>6. \A d \in 0..n : d \in B
  BY <1>1, <1>4, <1>5, Climb
<1>7. PICK d \in 0..n : \E i \in DOMAIN L[d] : x = L[d][i]
  BY <1>3 DEF D
<1>8. d \in B
  BY <1>6
<1>9. Kind(x)
  BY <1>7, <1>8 DEF B
<1> QED
  BY <1>9 DEF Kind, D

\* A digest of two does not pass for a leaf, and has one reading.
LEMMA HashesBind ==
    /\ \A x, y : LeafHash(x) = LeafHash(y) => x = y
    /\ \A a, b, c, e : NodeHash(a, b) = NodeHash(c, e) => a = c /\ b = e
    /\ \A x, a, b : LeafHash(x) # NodeHash(a, b)
<1>1. \A x, y : LeafHash(x) = LeafHash(y) => x = y
  BY DEF LeafHash
<1>2. \A a, b, c, e : NodeHash(a, b) = NodeHash(c, e) => a = c /\ b = e
  BY DEF NodeHash
<1>3. ASSUME NEW x, NEW a, NEW b, LeafHash(x) = NodeHash(a, b)
      PROVE  FALSE
  <2>1. LeafHash(x)[1] = "leaf" /\ NodeHash(a, b)[1] = "node"
    BY DEF LeafHash, NodeHash
  <2> QED
    BY <1>3, <2>1
<1> QED
  BY <1>1, <1>2, <1>3

\* Whatever its steps, a proof that ends in the root starts at a leaf.
LEMMA PathsBindLeaves ==
    ASSUME NEW n, NEW leaves, Shaped(leaves, n),
           NEW leaf, NEW shown, Len(shown.steps) \in Nat,
           RootFromProof(leaf, shown) = ListRoot(leaves)
    PROVE  \E i \in 1..n : leaf = leaves[i]
<1> DEFINE k == Len(shown.steps)
           D == ListDigests(leaves)
<1>1. PICK h : Runs(h, leaf, shown.steps, k) /\ RootFromProof(leaf, shown) = h[k]
  BY RunsAre
<1>2. /\ h[0] = LeafHash(leaf)
      /\ \A d \in 1..k : h[d] = TakeStep(shown.steps[d], h[d - 1])
  <2>1. \A d \in 0..k : h[d] = IF d = 0 THEN LeafHash(leaf) ELSE TakeStep(shown.steps[d], h[d - 1])
    BY <1>1 DEF Runs
  <2>2. 0 \in 0..k /\ \A d \in 1..k : d \in 0..k /\ d # 0
    OBVIOUS
  <2> HIDE DEF k
  <2> QED
    BY <2>1, <2>2
<1>3. ListRoot(leaves) \in D
  <2>1. n \in Nat \ {0} /\ Len(leaves) = n /\ Height(leaves) \in 0..n
    BY LevelIs, HeightIs
  <2>2. 1 \in DOMAIN Levels(leaves)[Height(leaves)]
    <3>1. Shaped(Levels(leaves)[Height(leaves)], 1)
      BY HeightIs
    <3> QED
      BY <3>1 DEF Shaped
  <2>3. ListRoot(leaves) = Levels(leaves)[Height(leaves)][1]
    BY RootIs
  <2> QED
    BY <2>1, <2>2, <2>3 DEF ListDigests
<1> HIDE DEF D
<1> DEFINE B == {d \in 0..k : h[k - d] \in D}
<1>4. 0 \in B
  BY <1>1, <1>3
<1>5. ASSUME NEW d \in 1..k, d - 1 \in B
      PROVE  d \in B
  <2> DEFINE e == k - d + 1
  <2>1. e \in 1..k /\ k - (d - 1) = e /\ e - 1 = k - d
    OBVIOUS
  <2>2. h[e] \in D
    BY <1>5, <2>1
  <2> HIDE DEF e
  <2>3. \/ \E s : h[e] = NodeHash(s, h[e - 1])
        \/ \E s : h[e] = NodeHash(h[e - 1], s)
        \/ h[e] = h[e - 1]
    BY <1>2, <2>1 DEF TakeStep
  <2>4. ASSUME NEW a, NEW b, h[e] = NodeHash(a, b)
        PROVE  a \in D /\ b \in D
    BY <2>2, <2>4, DigestsAre, HashesBind DEF D
  <2>5. h[e - 1] \in D
    BY <2>2, <2>3, <2>4
  <2> QED
    BY <2>1, <2>5
<1> HIDE DEF B
<1>6. k \in B
  <2>1. k \in Nat
    OBVIOUS
  <2> HIDE DEF k
  <2>2. \A d \in 0..k : d \in B
    BY <1>4, <1>5, <2>1, Climb
  <2> QED
    BY <2>1, <2>2
<1>7. LeafHash(leaf) \in D
  <2>1. k - k = 0
    OBVIOUS
  <2> QED
    BY <1>2, <1>6, <2>1 DEF B
<1> QED
  BY <1>7, DigestsAre, HashesBind DEF D

\* A path down the left children of x passes n nodes before it meets a leaf.
Spine(c, x, n) ==
    /\ c = [d \in 0..n |-> c[d]]
    /\ c[n] = x /\ \E leaf : c[0] = LeafHash(leaf)
    /\ \A d \in 1..n : \E b : c[d] = NodeHash(c[d - 1], b)
Tall(x, n) == \E c : Spine(c, x, n)

\* A leaf's digest has none, and a node one more than its left child.
LEMMA TallGrows ==
    /\ \A leaf : Tall(LeafHash(leaf), 0)
    /\ \A n \in Nat : \A a, b : Tall(a, n) => Tall(NodeHash(a, b), n + 1)
<1>1. ASSUME NEW leaf
      PROVE  Tall(LeafHash(leaf), 0)
  <2> DEFINE c == [d \in 0..0 |-> LeafHash(leaf)]
  <2>1. Spine(c, LeafHash(leaf), 0)
    BY DEF Spine
  <2> QED
    BY <2>1 DEF Tall
<1>2. ASSUME NEW n \in Nat, NEW a, NEW b, Tall(a, n)
      PROVE  Tall(NodeHash(a, b), n + 1)
  <2>1. PICK c : Spine(c, a, n)
    BY <1>2 DEF Tall
  <2> DEFINE g == [d \in 0..(n + 1) |-> IF d = n + 1 THEN NodeHash(a, b) ELSE c[d]]
  <2>2. \A d \in 0..n : g[d] = c[d]
    OBVIOUS
  <2>3. g[n + 1] = NodeHash(a, b) /\ g = [d \in 0..(n + 1) |-> g[d]]
    OBVIOUS
  <2> HIDE DEF g
  <2>4. \E leaf : g[0] = LeafHash(leaf)
    BY <2>1, <2>2 DEF Spine
  <2>5. ASSUME NEW d \in 1..(n + 1)
        PROVE  \E e : g[d] = NodeHash(g[d - 1], e)
    <3>1. CASE d = n + 1
      <4>1. d - 1 = n /\ g[n] = a
        BY <2>1, <2>2, <3>1 DEF Spine
      <4> QED
        BY <2>3, <3>1, <4>1
    <3>2. CASE d # n + 1
      <4>1. d \in 1..n /\ d - 1 \in 0..n /\ d \in 0..n
        BY <3>2
      <4>2. \E e : c[d] = NodeHash(c[d - 1], e)
        BY <2>1, <4>1 DEF Spine
      <4> QED
        BY <2>2, <4>1, <4>2
    <3> QED
      BY <3>1, <3>2
  <2>6. Spine(g, NodeHash(a, b), n + 1)
    BY <2>3, <2>4, <2>5 DEF Spine
  <2> QED
    BY <2>6 DEF Tall
<1> QED
  BY <1>1, <1>2

\* A digest is of one height.
LEMMA TallOnce ==
    ASSUME NEW x, NEW n \in Nat, NEW m \in Nat, n <= m, Tall(x, n), Tall(x, m)
    PROVE  n = m
<1>1. PICK c : Spine(c, x, n)
  BY DEF Tall
<1>2. PICK e : Spine(e, x, m)
  BY DEF Tall
<1> DEFINE B == {d \in 0..n : c[n - d] = e[m - d]}
<1>3. 0 \in B
  BY <1>1, <1>2 DEF Spine
<1>4. ASSUME NEW d \in 1..n, d - 1 \in B
      PROVE  d \in B
  <2> DEFINE i == n - d + 1
             j == m - d + 1
  <2>1. /\ i \in 1..n /\ j \in 1..m /\ n - (d - 1) = i /\ m - (d - 1) = j
        /\ i - 1 = n - d /\ j - 1 = m - d
    OBVIOUS
  <2>2. c[i] = e[j]
    BY <1>4, <2>1
  <2> HIDE DEF i, j
  <2>3. PICK a : c[i] = NodeHash(c[i - 1], a)
    BY <1>1, <2>1 DEF Spine
  <2>4. PICK b : e[j] = NodeHash(e[j - 1], b)
    BY <1>2, <2>1 DEF Spine
  <2>5. NodeHash(c[i - 1], a) = NodeHash(e[j - 1], b)
    BY <2>2, <2>3, <2>4
  <2>6. c[i - 1] = e[j - 1]
    BY <2>5, HashesBind
  <2> QED
    BY <2>1, <2>6
<1> HIDE DEF B
<1>5. n \in B
  <2>1. \A d \in 0..n : d \in B
    BY <1>3, <1>4, Climb
  <2> QED
    BY <2>1
<1>6. c[0] = e[m - n]
  <2>1. n - n = 0
    OBVIOUS
  <2> QED
    BY <1>5, <2>1 DEF B
<1>7. ASSUME m # n
      PROVE  FALSE
  <2>1. m - n \in 1..m
    BY <1>7
  <2>2. \E b : e[m - n] = NodeHash(e[m - n - 1], b)
    BY <1>2, <2>1 DEF Spine
  <2>3. \E leaf : c[0] = LeafHash(leaf)
    BY <1>1 DEF Spine
  <2> QED
    BY <1>6, <2>2, <2>3, HashesBind
<1> QED
  BY <1>7

\* In a level every node is as high as the level, but the last may be lower.
LEMMA LevelsAreTall ==
    ASSUME NEW n, NEW leaves, Shaped(leaves, n)
    PROVE  \A d \in 0..n : \A m \in Nat : Shaped(Levels(leaves)[d], m) =>
              /\ \A i \in 1..(m - 1) : Tall(Levels(leaves)[d][i], d)
              /\ \E j \in 0..d : Tall(Levels(leaves)[d][m], j)
<1> DEFINE L == Levels(leaves)
           Rising(d, m) == /\ \A i \in 1..(m - 1) : Tall(L[d][i], d)
                           /\ \E j \in 0..d : Tall(L[d][m], j)
           B == {d \in 0..n : \A m \in Nat : Shaped(L[d], m) => Rising(d, m)}
<1>1. /\ n \in Nat \ {0} /\ L[0] = [j \in 1..n |-> LeafHash(leaves[j])]
      /\ \A d \in 1..n : L[d] = FoldLevel(L[d - 1])
  BY LevelIs
<1>2. \A d \in 0..n : \E m \in Nat : Shaped(L[d], m)
  BY LevelShapes
<1> HIDE DEF L
<1>3. 0 \in B
  <2>1. ASSUME NEW m \in Nat, Shaped(L[0], m)
        PROVE  Rising(0, m)
    <3>1. m = n
      BY <1>1, <2>1 DEF Shaped
    <3>2. \A i \in 1..n : Tall(L[0][i], 0)
      BY <1>1, TallGrows
    <3>3. 0 \in 0..0 /\ n \in 1..n /\ 1..(n - 1) \subseteq 1..n
      BY <1>1
    <3> QED
      BY <3>1, <3>2, <3>3
  <2> HIDE DEF Rising
  <2> QED
    BY <1>1, <2>1
<1>4. ASSUME NEW d \in 1..n, d - 1 \in B
      PROVE  d \in B
  <2>1. PICK k \in Nat : Shaped(L[d - 1], k)
    BY <1>1, <1>2
  <2>2. Rising(d - 1, k) /\ L[d] = FoldLevel(L[d - 1]) /\ d - 1 \in Nat /\ d = (d - 1) + 1
    BY <1>1, <1>4, <2>1
  <2>3. Shaped(L[d], (k + 1) \div 2)
    BY <2>1, <2>2, FoldShapes
  <2> DEFINE m == (k + 1) \div 2
  <2>4. \A q \in Nat : Shaped(L[d], q) => q = m
    BY <2>3 DEF Shaped
  <2>5. k \in Nat \ {0} /\ m \in Nat \ {0}
    BY <2>1, <2>3 DEF Shaped
  <2>6. ASSUME NEW i \in 1..m, 2 * i <= k
        PROVE  Tall(L[d][i], d)
    <3>1. L[d][i] = NodeHash(L[d - 1][2 * i - 1], L[d - 1][2 * i])
      BY <2>1, <2>2, <2>6, FoldAt
    <3>2. 2 * i - 1 \in 1..(k - 1)
      BY <2>6
    <3>3. Tall(L[d - 1][2 * i - 1], d - 1)
      BY <2>2, <3>2
    <3>4. Tall(L[d][i], (d - 1) + 1)
      BY <2>2, <3>1, <3>3, TallGrows
    <3> QED
      BY <2>2, <3>4
  <2>7. \A i \in 1..(m - 1) : Tall(L[d][i], d)
    <3>1. ASSUME NEW i \in 1..(m - 1)
          PROVE  i \in 1..m /\ 2 * i <= k
      BY <2>5
    <3> QED
      BY <2>6, <3>1
  <2>8. \E j \in 0..d : Tall(L[d][m], j)
    <3>1. CASE 2 * m <= k
      <4>1. m \in 1..m /\ d \in 0..d
        BY <2>5
      <4> HIDE DEF m
      <4> QED
        BY <2>6, <3>1, <4>1
    <3>2. CASE ~(2 * m <= k)
      <4>1. m \in 1..m /\ 2 * m - 1 = k
        BY <2>5, <3>2
      <4>2. L[d][m] = L[d - 1][k]
        BY <2>1, <2>2, <3>2, <4>1, FoldAt
      <4>3. PICK j \in 0..(d - 1) : Tall(L[d - 1][k], j)
        BY <2>2
      <4>4. j \in 0..d
        OBVIOUS
      <4> QED
        BY <4>2, <4>3, <4>4
    <3> QED
      BY <3>1, <3>2
  <2>9. Rising(d, m)
    BY <2>7, <2>8
  <2> HIDE DEF m, Rising
  <2> QED
    BY <2>4, <2>9
<1> HIDE DEF B
<1>5. \A d \in 0..n : d \in B
  BY <1>1, <1>3, <1>4, Climb
<1> QED
  BY <1>5 DEF B, L

\* The root is as high as its level.
LEMMA RootIsTall ==
    ASSUME NEW n, NEW leaves, Shaped(leaves, n)
    PROVE  Tall(ListRoot(leaves), Height(leaves))
<1> DEFINE L == Levels(leaves)
           h == Height(leaves)
<1>1. /\ n \in Nat \ {0} /\ L[0] = [j \in 1..n |-> LeafHash(leaves[j])]
      /\ \A d \in 1..n : L[d] = FoldLevel(L[d - 1])
  BY LevelIs
<1>2. /\ h \in 0..n
      /\ \A d \in 0..(h - 1) : \E m \in Nat : m > 1 /\ Shaped(L[d], m)
  BY HeightIs
<1>3. ListRoot(leaves) = L[h][1]
  BY RootIs
<1>4. \A d \in 0..n : \A m \in Nat : Shaped(L[d], m) => \A i \in 1..(m - 1) : Tall(L[d][i], d)
  BY LevelsAreTall
<1> HIDE DEF L, h
<1>5. CASE h = 0
  <2>1. L[h][1] = LeafHash(leaves[1])
    BY <1>1, <1>5
  <2> QED
    BY <1>3, <1>5, <2>1, TallGrows DEF h
<1>6. CASE h # 0
  <2>1. h - 1 \in 0..(h - 1) /\ h - 1 \in 0..n /\ h \in 1..n /\ h = (h - 1) + 1
    BY <1>1, <1>2, <1>6
  <2>2. PICK m \in Nat : m > 1 /\ Shaped(L[h - 1], m)
    BY <1>2, <2>1
  <2>3. 1 \in 1..(m - 1) /\ 1 \in 1..((m + 1) \div 2) /\ 2 * 1 <= m
    BY <2>2
  <2>4. Tall(L[h - 1][1], h - 1)
    BY <1>4, <2>1, <2>2, <2>3
  <2>5. FoldLevel(L[h - 1])[1] = NodeHash(L[h - 1][2 * 1 - 1], L[h - 1][2 * 1])
    BY <2>2, <2>3, FoldAt
  <2>6. 2 * 1 - 1 = 1 /\ h - 1 \in Nat
    BY <2>1
  <2>7. Tall(L[h][1], (h - 1) + 1)
    BY <1>1, <2>1, <2>4, <2>5, <2>6, TallGrows
  <2> QED
    BY <1>3, <2>1, <2>7 DEF h
<1> QED
  BY <1>5, <1>6

\* A last node carried up is not the parent of two: it is not high enough.
LEMMA PromotedIsLower ==
    ASSUME NEW d \in Nat, NEW j \in 0..d, NEW x, Tall(x, j), NEW a, NEW b, Tall(a, d)
    PROVE  x # NodeHash(a, b)
<1> SUFFICES ASSUME x = NodeHash(a, b) PROVE FALSE
  OBVIOUS
<1>1. Tall(x, d + 1)
  BY TallGrows
<1>2. j \in Nat /\ d + 1 \in Nat /\ j <= d + 1
  OBVIOUS
<1>3. j = d + 1
  BY <1>1, <1>2, TallOnce
<1> QED
  BY <1>3

\* Two levels of m nodes are the same.
Alike(level, other, m) ==
    Shaped(level, m) /\ Shaped(other, m) /\ \A i \in 1..m : level[i] = other[i]

\* A level whose nodes are d high, but for the last.
Level(level, m, d) ==
    /\ Shaped(level, m) /\ \A i \in 1..(m - 1) : Tall(level[i], d)
    /\ \E j \in 0..d : Tall(level[m], j)

\* No level folds to what a level of one more node folds to.
LEMMA FoldsCount ==
    ASSUME NEW d \in Nat, NEW k \in Nat, NEW l \in Nat, k < l,
           NEW level, Level(level, k, d), NEW other, Level(other, l, d),
           NEW q, Alike(FoldLevel(level), FoldLevel(other), q)
    PROVE  FALSE
<1>1. Shaped(level, k) /\ Shaped(other, l) /\ k \in Nat \ {0} /\ l \in Nat \ {0}
  BY DEF Level, Shaped
<1>2. q = (k + 1) \div 2 /\ q = (l + 1) \div 2
  <2>1. Shaped(FoldLevel(level), (k + 1) \div 2) /\ Shaped(FoldLevel(other), (l + 1) \div 2)
    BY <1>1, FoldShapes
  <2> QED
    BY <2>1 DEF Alike, Shaped
<1>3. l = k + 1 /\ 2 * q - 1 = k /\ 2 * q = l /\ q \in 1..q
  BY <1>1, <1>2
<1>4. FoldLevel(level)[q] = level[k]
  <2>1. ~(2 * q <= k)
    BY <1>3
  <2> QED
    BY <1>1, <1>2, <1>3, <2>1, FoldAt
<1>5. FoldLevel(other)[q] = NodeHash(other[k], other[l])
  <2>1. 2 * q <= l
    BY <1>3
  <2> QED
    BY <1>1, <1>2, <1>3, <2>1, FoldAt
<1>6. level[k] = NodeHash(other[k], other[l])
  BY <1>3, <1>4, <1>5 DEF Alike
<1>7. Tall(other[k], d)
  <2>1. k \in 1..(l - 1)
    BY <1>1, <1>3
  <2> QED
    BY <2>1 DEF Level
<1> QED
  BY <1>6, <1>7, PromotedIsLower DEF Level

\* Levels that fold alike are alike.
LEMMA FoldIsOneToOne ==
    ASSUME NEW d \in Nat, NEW k \in Nat, NEW l \in Nat,
           NEW level, Level(level, k, d), NEW other, Level(other, l, d),
           NEW q, Alike(FoldLevel(level), FoldLevel(other), q)
    PROVE  Alike(level, other, k)
<1>1. Alike(FoldLevel(other), FoldLevel(level), q)
  BY DEF Alike
<1>2. k = l
  <2>1. CASE k < l
    BY <2>1, FoldsCount
  <2>2. CASE l < k
    BY <1>1, <2>2, FoldsCount
  <2> QED
    BY <2>1, <2>2
<1>3. Shaped(level, k) /\ Shaped(other, k) /\ k \in Nat \ {0}
  BY <1>2 DEF Level, Shaped
<1>4. q = (k + 1) \div 2
  <2>1. Shaped(FoldLevel(level), (k + 1) \div 2)
    BY <1>3, FoldShapes
  <2> QED
    BY <2>1 DEF Alike, Shaped
<1>5. ASSUME NEW i \in 1..k
      PROVE  level[i] = other[i]
  <2> DEFINE up == (i + 1) \div 2
  <2>1. up \in 1..q /\ (2 * up - 1 = i \/ (2 * up = i /\ 2 * up <= k))
    BY <1>3, <1>4
  <2>2. FoldLevel(level)[up] = FoldLevel(other)[up]
    BY <2>1 DEF Alike
  <2>3. /\ FoldLevel(level)[up] = IF 2 * up <= k THEN NodeHash(level[2 * up - 1], level[2 * up])
                                  ELSE level[2 * up - 1]
        /\ FoldLevel(other)[up] = IF 2 * up <= k THEN NodeHash(other[2 * up - 1], other[2 * up])
                                  ELSE other[2 * up - 1]
    <3> HIDE DEF up
    <3> QED
      BY <1>3, <1>4, <2>1, FoldAt
  <2> HIDE DEF up
  <2>4. CASE 2 * up <= k
    <3>1. NodeHash(level[2 * up - 1], level[2 * up]) = NodeHash(other[2 * up - 1], other[2 * up])
      BY <2>2, <2>3, <2>4
    <3>2. level[2 * up - 1] = other[2 * up - 1] /\ level[2 * up] = other[2 * up]
      BY <3>1, HashesBind
    <3> QED
      BY <2>1, <3>2
  <2>5. CASE ~(2 * up <= k)
    BY <2>1, <2>2, <2>3, <2>5
  <2> QED
    BY <2>4, <2>5
<1> QED
  BY <1>3, <1>5 DEF Alike

\* A root is the root of one list.
LEMMA RootsBindLists ==
    ASSUME NEW n, NEW leaves, Shaped(leaves, n),
           NEW m, NEW others, Shaped(others, m),
           ListRoot(leaves) = ListRoot(others)
    PROVE  n = m /\ \A i \in 1..n : leaves[i] = others[i]
<1> DEFINE L == Levels(leaves)
           K == Levels(others)
           h == Height(leaves)
<1>1. /\ n \in Nat \ {0} /\ L[0] = [i \in 1..n |-> LeafHash(leaves[i])]
      /\ \A d \in 1..n : L[d] = FoldLevel(L[d - 1])
  BY LevelIs
<1>2. /\ m \in Nat \ {0} /\ K[0] = [i \in 1..m |-> LeafHash(others[i])]
      /\ \A d \in 1..m : K[d] = FoldLevel(K[d - 1])
  BY LevelIs
<1>3. h \in 0..n /\ Shaped(L[h], 1) /\ Height(others) \in 0..m /\ Shaped(K[Height(others)], 1)
  BY HeightIs
<1>4. h \in Nat /\ Height(others) \in Nat
  BY <1>1, <1>2, <1>3
<1>5. h = Height(others)
  <2>1. Tall(ListRoot(leaves), h) /\ Tall(ListRoot(leaves), Height(others))
    BY RootIsTall
  <2> HIDE DEF h
  <2>2. CASE h <= Height(others)
    BY <1>4, <2>1, <2>2, TallOnce
  <2>3. CASE Height(others) <= h
    BY <1>4, <2>1, <2>3, TallOnce
  <2> QED
    BY <1>4, <2>2, <2>3
<1>6. L[h][1] = K[h][1]
  BY <1>5, RootIs
<1>7. \A d \in 0..n : \E k \in Nat : Level(L[d], k, d)
  <2>1. ASSUME NEW d \in 0..n
        PROVE  \E k \in Nat : Level(L[d], k, d)
    <3>1. PICK k \in Nat : Shaped(L[d], k)
      BY LevelShapes
    <3>2. Level(L[d], k, d)
      BY <3>1, LevelsAreTall DEF Level
    <3> QED
      BY <3>2
  <2> QED
    BY <2>1
<1>8. \A d \in 0..m : \E k \in Nat : Level(K[d], k, d)
  <2>1. ASSUME NEW d \in 0..m
        PROVE  \E k \in Nat : Level(K[d], k, d)
    <3>1. PICK k \in Nat : Shaped(K[d], k)
      BY LevelShapes
    <3>2. Level(K[d], k, d)
      BY <3>1, LevelsAreTall DEF Level
    <3> QED
      BY <3>2
  <2> QED
    BY <2>1
<1>9. h \in 0..m /\ Shaped(K[h], 1)
  BY <1>3, <1>5
<1> HIDE DEF L, K, h
<1> DEFINE B == {d \in 0..h : \E k \in Nat : Alike(L[h - d], K[h - d], k)}
<1>10. 0 \in B
  <2>1. Alike(L[h], K[h], 1)
    BY <1>3, <1>6, <1>9 DEF Alike
  <2>2. h - 0 = h
    BY <1>4
  <2> QED
    BY <1>4, <2>1, <2>2
<1>11. ASSUME NEW d \in 1..h, d - 1 \in B
       PROVE  d \in B
  <2> DEFINE e == h - d
  <2>1. e \in Nat /\ h - (d - 1) = e + 1 /\ e + 1 \in 1..n /\ e + 1 \in 1..m
        /\ e \in 0..n /\ e \in 0..m /\ (e + 1) - 1 = e
    BY <1>1, <1>2, <1>3, <1>4, <1>9
  <2>2. PICK q : Alike(L[e + 1], K[e + 1], q)
    BY <1>11, <2>1
  <2> HIDE DEF e
  <2>3. L[e + 1] = FoldLevel(L[e]) /\ K[e + 1] = FoldLevel(K[e])
    BY <1>1, <1>2, <2>1
  <2>4. PICK k \in Nat : Level(L[e], k, e)
    BY <1>7, <2>1
  <2>5. PICK l \in Nat : Level(K[e], l, e)
    BY <1>8, <2>1
  <2>6. Alike(L[e], K[e], k)
    BY <2>1, <2>2, <2>3, <2>4, <2>5, FoldIsOneToOne
  <2> QED
    BY <2>6 DEF e
<1> HIDE DEF B
<1>12. h \in B
  <2>1. \A d \in 0..h : d \in B
    BY <1>4, <1>10, <1>11, Climb
  <2> QED
    BY <1>4, <2>1
<1>13. PICK k \in Nat : Alike(L[0], K[0], k)
  <2>1. h - h = 0
    BY <1>4
  <2> QED
    BY <1>12, <2>1 DEF B
<1>14. k = n /\ k = m
  BY <1>1, <1>2, <1>13 DEF Alike, Shaped
<1>15. ASSUME NEW i \in 1..n
       PROVE  leaves[i] = others[i]
  <2>1. LeafHash(leaves[i]) = LeafHash(others[i])
    BY <1>1, <1>2, <1>13, <1>14 DEF Alike
  <2> QED
    BY <2>1, HashesBind
<1> QED
  BY <1>14, <1>15

\* No list of leaves has the root of the empty one.
LEMMA EmptyRootIsFree ==
    ASSUME NEW n, NEW leaves, Shaped(leaves, n)
    PROVE  ListRoot(leaves) # EmptyRoot
<1>1. Tall(ListRoot(leaves), Height(leaves)) /\ Height(leaves) \in Nat
  <2>1. n \in Nat /\ Height(leaves) \in 0..n
    BY HeightIs DEF Shaped
  <2> QED
    BY <2>1, RootIsTall
<1>2. PICK c : Spine(c, ListRoot(leaves), Height(leaves))
  BY <1>1 DEF Tall
<1>3. \/ \E leaf : ListRoot(leaves) = LeafHash(leaf)
      \/ \E a, b : ListRoot(leaves) = NodeHash(a, b)
  <2>1. Height(leaves) = 0 \/ Height(leaves) \in 1..Height(leaves)
    BY <1>1
  <2> QED
    BY <1>2, <2>1 DEF Spine
<1>4. \A leaf : LeafHash(leaf)[1] = "leaf"
  BY DEF LeafHash
<1>5. \A a, b : NodeHash(a, b)[1] = "node"
  BY DEF NodeHash
<1>6. EmptyRoot[1] = "zero"
  BY DEF EmptyRoot
<1> QED
  BY <1>3, <1>4, <1>5, <1>6

\* The list of a block while a proposer adds to it.
ListSpec == ListInit /\ [][ListNext]_listVars

\* merkle.rs: a proof shows a transaction that is in the block and every one of
\* those, and a root is the root of one list, for any block and any leaves.
THEOREM InclusionIsExact == ListSpec => []OnlyListedIsIncluded
<1> DEFINE Listed == list \in Seq(Leaves)
<1>1. ListInit => Listed
  BY DEF ListInit
<1>2. Listed /\ [ListNext]_listVars => Listed'
  BY DEF ListNext, AppendLeaf, listVars
<1>3. Listed => OnlyListedIsIncluded
  <2> SUFFICES ASSUME list \in Seq(Leaves) PROVE OnlyListedIsIncluded
    OBVIOUS
  <2> DEFINE n == Len(list)
             Others == UNION {[1 .. k -> Leaves] : k \in 0 .. n}
             root == ListRoot(list)
  <2>1. n \in Nat /\ DOMAIN list = 1..n /\ (list = <<>> <=> n = 0)
    OBVIOUS
  <2>2. n # 0 => Shaped(list, n)
    BY <2>1 DEF Shaped
  <2>3. ASSUME NEW i \in DOMAIN list
        PROVE  RootFromProof(list[i], ListProof(list, i - 1)) = root
    <3>1. i \in 1..n /\ Shaped(list, n)
      BY <2>1, <2>2
    <3> QED
      BY <3>1, HonestProofsArrive
  <2>4. ASSUME NEW leaf, NEW path \in OfferedPaths,
               RootFromProof(leaf, [index |-> 0, steps |-> path]) = root
        PROVE  leaf \in Range(list)
    <3> DEFINE honest == UNION {{ListProof(SubSeq(list, 1, k), i).steps : i \in 0..(k - 1)} :
                                  k \in 1..Len(list)}
    <3>1. path \in UNION {{SubSeq(p, a, b) : a \in 1..(Len(p) + 1), b \in 0..Len(p)} : p \in honest}
      BY DEF OfferedPaths
    <3> HIDE DEF honest
    <3>2. PICK p \in honest : path \in {SubSeq(p, a, b) : a \in 1..(Len(p) + 1), b \in 0..Len(p)}
      BY <3>1
    <3>7. PICK a \in 1..(Len(p) + 1), b \in 0..Len(p) : path = SubSeq(p, a, b)
      BY <3>2
    <3>3. Len(path) \in Nat
      <4> DEFINE S == {p[j] : j \in a..b}
      <4>1. a \in Int /\ b \in Int /\ \A j \in a..b : p[j] \in S
        OBVIOUS
      <4> HIDE DEF S
      <4>2. SubSeq(p, a, b) \in Seq(S)
        BY <4>1, SubSeqProperties
      <4> QED
        BY <3>7, <4>2
    <3>4. n # 0
      BY <2>1, <3>2 DEF honest
    <3> DEFINE shown == [index |-> 0, steps |-> path]
    <3>5. Len(shown.steps) \in Nat /\ RootFromProof(leaf, shown) = ListRoot(list)
      BY <2>4, <3>3
    <3>6. \E j \in 1..n : leaf = list[j]
      <4> HIDE DEF shown
      <4> QED
        BY <2>2, <3>4, <3>5, PathsBindLeaves
    <3> QED
      BY <2>1, <3>6 DEF Range
  <2>5. ASSUME NEW other \in Others, ListRoot(other) = root
        PROVE  other = list
    <3>1. PICK m \in 0..n : other \in [1..m -> Leaves]
      OBVIOUS
    <3>2. Len(other) = m /\ m \in Nat /\ other \in Seq(Leaves)
      BY <3>1, <2>1
    <3>3. m # 0 => Shaped(other, m)
      BY <3>1, <3>2 DEF Shaped
    <3>4. CASE m = 0
      <4>1. ListRoot(other) = EmptyRoot
        <5>1. other = <<>>
          BY <3>2, <3>4
        <5> QED
          BY <5>1 DEF ListRoot
      <4>2. n = 0
        BY <2>2, <2>5, <4>1, EmptyRootIsFree
      <4> QED
        BY <2>1, <3>2, <3>4, <4>2
    <3>5. CASE m # 0
      <4>1. n # 0
        BY <2>1, <3>1, <3>5
      <4>2. m = n /\ \A i \in 1..n : list[i] = other[i]
        BY <2>2, <2>5, <3>3, <3>5, <4>1, RootsBindLists
      <4> QED
        BY <2>1, <3>2, <4>2
    <3> QED
      BY <3>4, <3>5
  <2> HIDE DEF n, Others, root
  <2>6. \A i \in DOMAIN list : RootFromProof(list[i], ListProof(list, i - 1)) = root
    BY <2>3
  <2>7. \A leaf \in Presented, path \in OfferedPaths :
           RootFromProof(leaf, [index |-> 0, steps |-> path]) = root => leaf \in Range(list)
    BY <2>4
  <2>8. \A other \in Others : ListRoot(other) = root => other = list
    BY <2>5
  <2> QED
    BY <2>6, <2>7, <2>8 DEF OnlyListedIsIncluded, n, Others, root
<1> QED
  BY <1>1, <1>2, <1>3, PTL DEF ListSpec

----------------------------------------------------------------------------
(* The tree of state. *)

\* A tree: finitely many keys, each with a value.
Tree(content) ==
    /\ content = [k \in DOMAIN content |-> content[k]]
    /\ DOMAIN content \subseteq Paths /\ IsFiniteSet(DOMAIN content)

\* One level of subtrees, from the one below.
TreeAt(content, height, below) ==
    [key \in Paths |-> SliceRoot(content, key, Depth - height, below)]
\* h satisfies the recursion of the subtrees up to n.
Grown(h, content, n) ==
    h = [d \in 0..n |-> IF d = 0 THEN [key \in Paths |-> SliceRoot(content, key, Depth, <<>>)]
                        ELSE TreeAt(content, d, h[d - 1])]

\* There are subtrees at every height.
LEMMA SubtreesAre ==
    ASSUME NEW content
    PROVE  Grown(Subtrees(content), content, Depth)
<1>0. Depth \in Nat
  BY StateTreeAssumption
<1> DEFINE n == Depth
           B == {m \in 0..n : \E h : Grown(h, content, m)}
<1>1. 0 \in B
  <2>1. Grown([d \in 0..0 |-> [key \in Paths |-> SliceRoot(content, key, Depth, <<>>)]], content, 0)
    BY DEF Grown
  <2> QED
    BY <1>0, <2>1
<1>2. ASSUME NEW m \in 1..n, m - 1 \in B
      PROVE  m \in B
  <2>1. PICK h : Grown(h, content, m - 1)
    BY <1>2
  <2> DEFINE g == [d \in 0..m |-> IF d = m THEN TreeAt(content, m, h[m - 1]) ELSE h[d]]
  <2>2. ASSUME NEW d \in 0..m
        PROVE  g[d] = IF d = 0 THEN [key \in Paths |-> SliceRoot(content, key, Depth, <<>>)] ELSE TreeAt(content, d, g[d - 1])
    <3>1. CASE d = m
      <4>1. d - 1 \in 0..m /\ d - 1 # m /\ d # 0
        BY <3>1
      <4> QED
        BY <3>1, <4>1
    <3>2. CASE d # m
      <4>1. d \in 0..(m - 1) /\ (d # 0 => d - 1 \in 0..m /\ d - 1 # m)
        BY <3>2
      <4>2. h[d] = IF d = 0 THEN [key \in Paths |-> SliceRoot(content, key, Depth, <<>>)] ELSE TreeAt(content, d, h[d - 1])
        BY <2>1, <4>1 DEF Grown
      <4>3. g[d] = h[d] /\ (d # 0 => g[d - 1] = h[d - 1])
        BY <3>2, <4>1
      <4> HIDE DEF g
      <4> QED
        BY <4>2, <4>3
    <3> QED
      BY <3>1, <3>2
  <2>3. g = [d \in 0..m |-> g[d]]
    OBVIOUS
  <2> HIDE DEF g
  <2>4. Grown(g, content, m)
    BY <2>2, <2>3 DEF Grown
  <2> QED
    BY <2>4
<1>3. n \in B
  <2>1. n \in Nat
    BY <1>0
  <2>2. \A m \in 1..n : m - 1 \in B => m \in B
    BY <1>2
  <2> HIDE DEF B, n
  <2>3. \A m \in 0..n : m \in B
    BY <1>1, <2>1, <2>2, Climb
  <2> QED
    BY <2>1, <2>3
<1>4. PICK h : Grown(h, content, n)
  BY <1>3
<1> QED
  BY <1>4, Zenon DEF Subtrees, Grown, TreeAt

\* What one step of walking up makes of a digest.
StepUp(siblings, key, i, digest) ==
    LET d == Len(siblings) + 1 - i
    IN  IF key[d] = 1 THEN Combine(siblings[d], digest) ELSE Combine(digest, siblings[d])
\* h walks up n siblings.
Walks(h, siblings, key, start, n) ==
    h = [d \in 0..n |-> IF d = 0 THEN start ELSE StepUp(siblings, key, d, h[d - 1])]

\* There are such digests, and the last is what is computed.
LEMMA WalkUpIs ==
    ASSUME NEW siblings, NEW key, NEW start, Len(siblings) \in Nat
    PROVE  \E h : /\ Walks(h, siblings, key, start, Len(siblings))
                 /\ WalkUp(siblings, key, start) = h[Len(siblings)]
<1> DEFINE walk == CHOOSE h : Walks(h, siblings, key, start, Len(siblings))
<1> DEFINE n == Len(siblings)
           B == {m \in 0..n : \E h : Walks(h, siblings, key, start, m)}
<1>1. 0 \in B
  <2>1. Walks([d \in 0..0 |-> start], siblings, key, start, 0)
    BY DEF Walks
  <2> QED
    BY <2>1
<1>2. ASSUME NEW m \in 1..n, m - 1 \in B
      PROVE  m \in B
  <2>1. PICK h : Walks(h, siblings, key, start, m - 1)
    BY <1>2
  <2> DEFINE g == [d \in 0..m |-> IF d = m THEN StepUp(siblings, key, m, h[m - 1]) ELSE h[d]]
  <2>2. ASSUME NEW d \in 0..m
        PROVE  g[d] = IF d = 0 THEN start ELSE StepUp(siblings, key, d, g[d - 1])
    <3>1. CASE d = m
      <4>1. d - 1 \in 0..m /\ d - 1 # m /\ d # 0
        BY <3>1
      <4> QED
        BY <3>1, <4>1
    <3>2. CASE d # m
      <4>1. d \in 0..(m - 1) /\ (d # 0 => d - 1 \in 0..m /\ d - 1 # m)
        BY <3>2
      <4>2. h[d] = IF d = 0 THEN start ELSE StepUp(siblings, key, d, h[d - 1])
        BY <2>1, <4>1 DEF Walks
      <4>3. g[d] = h[d] /\ (d # 0 => g[d - 1] = h[d - 1])
        BY <3>2, <4>1
      <4> HIDE DEF g
      <4> QED
        BY <4>2, <4>3
    <3> QED
      BY <3>1, <3>2
  <2>3. g = [d \in 0..m |-> g[d]]
    OBVIOUS
  <2> HIDE DEF g
  <2>4. Walks(g, siblings, key, start, m)
    BY <2>2, <2>3 DEF Walks
  <2> QED
    BY <2>4
<1>3. n \in B
  <2>1. n \in Nat
    OBVIOUS
  <2>2. \A m \in 1..n : m - 1 \in B => m \in B
    BY <1>2
  <2> HIDE DEF B, n
  <2>3. \A m \in 0..n : m \in B
    BY <1>1, <2>1, <2>2, Climb
  <2> QED
    BY <2>1, <2>3
<1>4. PICK h : Walks(h, siblings, key, start, n)
  BY <1>3
<1>5. Walks(walk, siblings, key, start, n)
  BY <1>4, Zenon
<1>6. WalkUp(siblings, key, start) = walk[n]
  BY Zenon DEF WalkUp, Walks, StepUp
<1> QED
  BY <1>5, <1>6

----------------------------------------------------------------------------
(* Digests. *)

\* An empty tree, a leaf and a node are told apart, and a node has one reading.
LEMMA TreeDigestsBind ==
    /\ \A k, v : TreeLeaf(k, v) # ZeroDigest
    /\ \A k, v, l, w : TreeLeaf(k, v) = TreeLeaf(l, w) => k = l /\ v = w
    /\ \A k, v, a, b : Combine(a, b) # TreeLeaf(k, v)
    /\ \A a, b : Combine(a, b) = ZeroDigest <=> a = ZeroDigest /\ b = ZeroDigest
    /\ \A a, b, c, e : Combine(a, b) = Combine(c, e) => a = c /\ b = e
<1>1. ZeroDigest[1] = "zero"
  BY DEF ZeroDigest
<1>2. \A k, v : TreeLeaf(k, v)[1] = "leaf"
  BY DEF TreeLeaf
<1>3. \A k, v, l, w : TreeLeaf(k, v) = TreeLeaf(l, w) => k = l /\ v = w
  BY DEF TreeLeaf
<1>4. \A a, b : Combine(a, b) =
         IF a = ZeroDigest /\ b = ZeroDigest THEN ZeroDigest ELSE <<"node", a, b>>
  BY DEF Combine
<1>5. \A a, b : <<"node", a, b>>[1] = "node"
  OBVIOUS
<1>6. \A a, b : Combine(a, b) = ZeroDigest <=> a = ZeroDigest /\ b = ZeroDigest
  BY <1>1, <1>4, <1>5
<1>7. \A k, v, a, b : Combine(a, b) # TreeLeaf(k, v)
  BY <1>1, <1>2, <1>4, <1>5
<1>8. ASSUME NEW a, NEW b, NEW c, NEW e, Combine(a, b) = Combine(c, e)
      PROVE  a = c /\ b = e
  <2>1. CASE Combine(a, b) = ZeroDigest
    <3>1. Combine(c, e) = ZeroDigest
      BY <1>8, <2>1
    <3>2. a = ZeroDigest /\ b = ZeroDigest
      BY <1>6, <2>1
    <3>3. c = ZeroDigest /\ e = ZeroDigest
      BY <1>6, <3>1
    <3> QED
      BY <3>2, <3>3
  <2>2. CASE Combine(a, b) # ZeroDigest
    <3>1. <<"node", a, b>> = <<"node", c, e>>
      BY <1>4, <1>8, <2>2
    <3> QED
      BY <3>1
  <2> QED
    BY <2>1, <2>2
<1> QED
  BY <1>1, <1>2, <1>3, <1>6, <1>7, <1>8

----------------------------------------------------------------------------
(* Subtrees. *)

\* One bit further, the entries with that bit of the key's are left.
LEMMA WithinIs ==
    ASSUME NEW content, Tree(content), NEW key \in Paths, NEW d \in 0..Depth
    PROVE  /\ IsFiniteSet(Within(content, key, d)) /\ Within(content, key, d) \subseteq Paths
           /\ d < Depth =>
                /\ d + 1 \in 1..Depth /\ d + 1 \in 0..Depth
                /\ Within(content, key, d + 1) = {k \in Within(content, key, d) : k[d + 1] = key[d + 1]}
           /\ Within(content, key, Depth) \subseteq {key}
<1>0. Depth \in Nat
  BY StateTreeAssumption
<1>1. Within(content, key, d) \subseteq DOMAIN content
  BY DEF Within
<1>2. IsFiniteSet(Within(content, key, d)) /\ Within(content, key, d) \subseteq Paths
  <2>1. IsFiniteSet(DOMAIN content) /\ DOMAIN content \subseteq Paths
    BY DEF Tree
  <2> QED
    BY <1>1, <2>1, FS_Subset
<1>3. ASSUME d < Depth
      PROVE  Within(content, key, d + 1) = {k \in Within(content, key, d) : k[d + 1] = key[d + 1]}
  <2>1. \A i \in Int : i \in 1..(d + 1) <=> i \in 1..d \/ i = d + 1
    OBVIOUS
  <2>2. \A k : SharesPrefix(k, key, d + 1) <=> SharesPrefix(k, key, d) /\ k[d + 1] = key[d + 1]
    BY <2>1 DEF SharesPrefix
  <2> QED
    BY <2>2 DEF Within
<1>4. ASSUME NEW k \in Within(content, key, Depth)
      PROVE  k = key
  <2>1. k \in Paths /\ SharesPrefix(k, key, Depth)
    BY <1>4 DEF Within, Tree
  <2>2. \A i \in 1..Depth : k[i] = key[i]
    BY <2>1 DEF SharesPrefix
  <2>3. k = [i \in 1..Depth |-> k[i]] /\ key = [i \in 1..Depth |-> key[i]]
    BY <2>1 DEF Paths
  <2> QED
    BY <2>2, <2>3
<1> QED
  BY <1>0, <1>2, <1>3, <1>4

\* A slice has no entry, one, or more.
LEMMA SliceSizes ==
    ASSUME NEW slice, IsFiniteSet(slice)
    PROVE  /\ Cardinality(slice) = 1 <=> \E k : slice = {k}
           /\ Cardinality(slice) <= 1 <=> slice = {} \/ \E k : slice = {k}
<1>1. Cardinality(slice) \in Nat
  BY FS_CardinalityType
<1>2. Cardinality(slice) = 0 <=> slice = {}
  BY FS_EmptySet
<1>3. Cardinality(slice) = 1 <=> \E k : slice = {k}
  BY FS_Singleton
<1> QED
  BY <1>1, <1>2, <1>3

\* A key with one bit turned is a key, and the bits before it stay.
LEMMA TurnIs ==
    ASSUME NEW key \in Paths, NEW d \in 1..Depth, NEW bit \in {0, 1}
    PROVE  /\ Turn(key, d, bit) \in Paths /\ Turn(key, d, bit)[d] = bit
           /\ Turn(key, d, key[d]) = key
           /\ key[d] \in {0, 1} /\ Aside(key, d) = Turn(key, d, 1 - key[d]) /\ 1 - key[d] \in {0, 1}
<1>1. Depth \in Nat
  BY StateTreeAssumption
<1>2. key[d] \in {0, 1} /\ 1 - key[d] \in {0, 1}
  BY DEF Paths
<1> QED
  BY <1>1, <1>2 DEF Turn, Paths, Aside

LEMMA TurnKeeps ==
    ASSUME NEW key \in Paths, NEW d \in 0..Depth, d < Depth, NEW bit \in {0, 1}
    PROVE  /\ Turn(key, d + 1, bit) \in Paths
           /\ \A k : SharesPrefix(k, Turn(key, d + 1, bit), d + 1)
                      <=> SharesPrefix(k, key, d) /\ k[d + 1] = bit
           /\ SharesPrefix(Turn(key, d + 1, bit), key, d)
<1>1. Depth \in Nat /\ d + 1 \in 1..Depth
  BY StateTreeAssumption
<1>2. Turn(key, d + 1, bit) \in Paths /\ Turn(key, d + 1, bit)[d + 1] = bit
  BY <1>1, TurnIs
<1>3. ASSUME NEW i \in 1..d
      PROVE  Turn(key, d + 1, bit)[i] = key[i]
  BY <1>1 DEF Turn, Paths
<1>4. \A i \in Int : i \in 1..(d + 1) <=> i \in 1..d \/ i = d + 1
  BY <1>1
<1> QED
  BY <1>2, <1>3, <1>4 DEF SharesPrefix

\* The root of a subtree: of nothing, of one entry, of two halves.
LEMMA SubtreeIs ==
    ASSUME NEW content, Tree(content), NEW key \in Paths, NEW d \in 0..Depth
    PROVE  LET slice == Within(content, key, d)
               root == SubtreeRoot(content, key, d)
           IN  /\ slice = {} => root = ZeroDigest
               /\ \A k : slice = {k} => root = TreeLeaf(k, content[k])
               /\ slice # {} /\ (\A k : slice # {k}) =>
                    /\ d < Depth
                    /\ root = Combine(SubtreeRoot(content, Turn(key, d + 1, 0), d + 1),
                                      SubtreeRoot(content, Turn(key, d + 1, 1), d + 1))
<1> DEFINE slice == Within(content, key, d)
           root == SubtreeRoot(content, key, d)
           h == Subtrees(content)
           n == Depth - d
<1>1. Depth \in Nat /\ n \in 0..Depth /\ Depth - n = d
  BY StateTreeAssumption
<1>2. Grown(h, content, Depth)
  BY SubtreesAre
<1>4. PICK below : /\ root = SliceRoot(content, key, d, below)
                   /\ d < Depth => n - 1 \in 0..Depth /\ below = h[n - 1]
  <2> HIDE DEF h
  <2>1. h[n] = IF n = 0 THEN [k \in Paths |-> SliceRoot(content, k, Depth, <<>>)]
               ELSE TreeAt(content, n, h[n - 1])
    BY <1>1, <1>2 DEF Grown
  <2>2. root = h[n][key]
    BY DEF SubtreeRoot, h
  <2>3. CASE n = 0
    <3>1. root = SliceRoot(content, key, Depth, <<>>) /\ d = Depth
      BY <1>1, <2>1, <2>2, <2>3
    <3> QED
      BY <1>1, <3>1
  <2>4. CASE n # 0
    <3>1. root = SliceRoot(content, key, d, h[n - 1]) /\ n - 1 \in 0..Depth
      BY <1>1, <2>1, <2>2, <2>4 DEF TreeAt
    <3> QED
      BY <3>1
  <2> HIDE DEF n, root
  <2> QED
    BY <2>3, <2>4
<1>5. IsFiniteSet(slice)
  BY WithinIs
<1>6. Cardinality(slice) = 1 <=> \E k : slice = {k}
  BY <1>5, SliceSizes
<1>7. root = IF slice = {} THEN ZeroDigest
             ELSE IF Cardinality(slice) = 1
                  THEN TreeLeaf(CHOOSE k \in slice : TRUE, content[CHOOSE k \in slice : TRUE])
             ELSE IF d >= Depth THEN ZeroDigest
             ELSE Combine(below[Turn(key, d + 1, 0)], below[Turn(key, d + 1, 1)])
  BY <1>4 DEF SliceRoot
<1>8. ASSUME slice # {}, \A k : slice # {k}
      PROVE  d < Depth
  <2>1. Within(content, key, Depth) \subseteq {key}
    BY WithinIs
  <2>2. CASE d = Depth
    <3>1. slice \subseteq {key}
      BY <2>1, <2>2
    <3> HIDE DEF slice
    <3> QED
      BY <1>8, <3>1
  <2> HIDE DEF slice
  <2> QED
    BY <1>1, <2>2
<1>9. ASSUME d < Depth
      PROVE  \A k \in Paths : SubtreeRoot(content, k, d + 1) = below[k]
  <2>1. Depth - (d + 1) = n - 1
    BY <1>1
  <2> QED
    BY <1>4, <1>9, <2>1 DEF SubtreeRoot
<1>10. d < Depth => Turn(key, d + 1, 0) \in Paths /\ Turn(key, d + 1, 1) \in Paths
  BY <1>1, TurnIs
<1>11. ASSUME NEW k, slice = {k}
       PROVE  root = TreeLeaf(k, content[k])
  <2>1. (CHOOSE j \in slice : TRUE) = k
    BY <1>11
  <2> QED
    BY <1>6, <1>7, <1>11, <2>1
<1>12. ASSUME slice # {}, \A k : slice # {k}
       PROVE  /\ d < Depth
              /\ root = Combine(SubtreeRoot(content, Turn(key, d + 1, 0), d + 1),
                                SubtreeRoot(content, Turn(key, d + 1, 1), d + 1))
  <2>1. d < Depth /\ ~(d >= Depth)
    <3>1. d < Depth
      BY <1>8, <1>12
    <3> QED
      BY <1>1, <3>1
  <2>2. root = Combine(below[Turn(key, d + 1, 0)], below[Turn(key, d + 1, 1)])
    BY <1>6, <1>7, <1>12, <2>1
  <2> QED
    BY <1>9, <1>10, <2>1, <2>2
<1>13. slice = {} => root = ZeroDigest
  BY <1>7
<1> QED
  BY <1>11, <1>12, <1>13

\* Two halves, seen from the key: its own and its sibling.
Joined(key, d, sibling, own) ==
    IF key[d] = 1 THEN Combine(sibling, own) ELSE Combine(own, sibling)

LEMMA SubtreeJoins ==
    ASSUME NEW content, Tree(content), NEW key \in Paths, NEW d \in 0..Depth,
           Within(content, key, d) # {}, \A k : Within(content, key, d) # {k}
    PROVE  /\ d < Depth
           /\ SubtreeRoot(content, key, d) =
                 Joined(key, d + 1, SubtreeRoot(content, Aside(key, d + 1), d + 1),
                        SubtreeRoot(content, key, d + 1))
<1>1. /\ d < Depth
      /\ SubtreeRoot(content, key, d) =
            Combine(SubtreeRoot(content, Turn(key, d + 1, 0), d + 1),
                    SubtreeRoot(content, Turn(key, d + 1, 1), d + 1))
  BY SubtreeIs
<1>2. d + 1 \in 1..Depth
  BY <1>1, StateTreeAssumption
<1>3. /\ Turn(key, d + 1, key[d + 1]) = key /\ key[d + 1] \in {0, 1}
      /\ Aside(key, d + 1) = Turn(key, d + 1, 1 - key[d + 1])
  BY <1>2, TurnIs
<1>4. CASE key[d + 1] = 1
  <2>1. Turn(key, d + 1, 1) = key /\ Aside(key, d + 1) = Turn(key, d + 1, 0)
    BY <1>3, <1>4
  <2> QED
    BY <1>1, <1>4, <2>1 DEF Joined
<1>5. CASE key[d + 1] = 0
  <2>1. Turn(key, d + 1, 0) = key /\ Aside(key, d + 1) = Turn(key, d + 1, 1)
    BY <1>3, <1>5
  <2> QED
    BY <1>1, <1>5, <2>1 DEF Joined
<1> QED
  BY <1>1, <1>3, <1>4, <1>5

\* Keys that share a prefix share the subtree under it.
LEMMA SubtreeShared ==
    ASSUME NEW content, Tree(content)
    PROVE  \A d \in 0..Depth : \A a, b \in Paths :
              SharesPrefix(a, b, d) => SubtreeRoot(content, a, d) = SubtreeRoot(content, b, d)
<1> DEFINE B == {n \in 0..Depth : \A a, b \in Paths : SharesPrefix(a, b, Depth - n) =>
                   SubtreeRoot(content, a, Depth - n) = SubtreeRoot(content, b, Depth - n)}
<1>1. Depth \in Nat
  BY StateTreeAssumption
<1>2. ASSUME NEW d \in 0..Depth, NEW a \in Paths, NEW b \in Paths, SharesPrefix(a, b, d),
             d < Depth => \A k, l \in Paths : SharesPrefix(k, l, d + 1) =>
                            SubtreeRoot(content, k, d + 1) = SubtreeRoot(content, l, d + 1)
      PROVE  SubtreeRoot(content, a, d) = SubtreeRoot(content, b, d)
  <2>1. Within(content, a, d) = Within(content, b, d)
    BY <1>2 DEF Within, SharesPrefix
  <2>2. CASE Within(content, a, d) = {} \/ \E k : Within(content, a, d) = {k}
    <3>1. CASE Within(content, a, d) = {}
      <4>1. SubtreeRoot(content, a, d) = ZeroDigest
        BY <3>1, SubtreeIs
      <4>2. SubtreeRoot(content, b, d) = ZeroDigest
        BY <2>1, <3>1, SubtreeIs
      <4> QED
        BY <4>1, <4>2
    <3>2. ASSUME NEW k, Within(content, a, d) = {k}
          PROVE  SubtreeRoot(content, a, d) = SubtreeRoot(content, b, d)
      <4>0. Within(content, b, d) = {k}
        BY <2>1, <3>2
      <4>1. SubtreeRoot(content, a, d) = TreeLeaf(k, content[k])
        BY <3>2, SubtreeIs
      <4>2. SubtreeRoot(content, b, d) = TreeLeaf(k, content[k])
        BY <4>0, SubtreeIs
      <4> QED
        BY <4>1, <4>2
    <3> QED
      BY <2>2, <3>1, <3>2
  <2>3. CASE Within(content, a, d) # {} /\ \A k : Within(content, a, d) # {k}
    <3>1. /\ d < Depth
          /\ SubtreeRoot(content, a, d) =
                Combine(SubtreeRoot(content, Turn(a, d + 1, 0), d + 1),
                        SubtreeRoot(content, Turn(a, d + 1, 1), d + 1))
      BY <2>3, SubtreeIs
    <3>2. SubtreeRoot(content, b, d) =
             Combine(SubtreeRoot(content, Turn(b, d + 1, 0), d + 1),
                     SubtreeRoot(content, Turn(b, d + 1, 1), d + 1))
      BY <2>1, <2>3, SubtreeIs
    <3>3. d + 1 \in 1..Depth /\ (d + 1) - 1 = d
      BY <1>1, <3>1
    <3>4. ASSUME NEW bit \in {0, 1}
          PROVE  SubtreeRoot(content, Turn(a, d + 1, bit), d + 1)
                    = SubtreeRoot(content, Turn(b, d + 1, bit), d + 1)
      <4>1. /\ Turn(a, d + 1, bit) \in Paths /\ Turn(b, d + 1, bit) \in Paths
            /\ SharesPrefix(Turn(a, d + 1, bit), a, d) /\ Turn(a, d + 1, bit)[d + 1] = bit
        BY <3>1, <3>3, TurnIs, TurnKeeps
      <4>2. SharesPrefix(Turn(a, d + 1, bit), b, d)
        BY <1>2, <4>1 DEF SharesPrefix
      <4>3. SharesPrefix(Turn(a, d + 1, bit), Turn(b, d + 1, bit), d + 1)
        BY <3>1, <4>1, <4>2, TurnKeeps
      <4> QED
        BY <1>2, <3>1, <4>1, <4>2, <4>3
    <3> QED
      BY <3>1, <3>2, <3>4
  <2> QED
    BY <2>2, <2>3
<1>3. 0 \in B
  <2>1. Depth \in 0..Depth /\ Depth - 0 = Depth /\ ~(Depth < Depth)
    BY <1>1
  <2>2. \A a, b \in Paths : SharesPrefix(a, b, Depth) =>
           SubtreeRoot(content, a, Depth) = SubtreeRoot(content, b, Depth)
    BY <1>2, <2>1
  <2> QED
    BY <1>1, <2>1, <2>2
<1>4. ASSUME NEW n \in 1..Depth, n - 1 \in B
      PROVE  n \in B
  <2>1. Depth - n \in 0..Depth /\ Depth - (n - 1) = (Depth - n) + 1 /\ n \in 0..Depth
    BY <1>1
  <2>2. \A k, l \in Paths : SharesPrefix(k, l, (Depth - n) + 1) =>
           SubtreeRoot(content, k, (Depth - n) + 1) = SubtreeRoot(content, l, (Depth - n) + 1)
    BY <1>4, <2>1
  <2>3. \A a, b \in Paths : SharesPrefix(a, b, Depth - n) =>
           SubtreeRoot(content, a, Depth - n) = SubtreeRoot(content, b, Depth - n)
    BY <1>2, <2>1, <2>2
  <2> QED
    BY <2>1, <2>3
<1> HIDE DEF B
<1>5. \A n \in 0..Depth : n \in B
  BY <1>1, <1>3, <1>4, Climb
<1> SUFFICES ASSUME NEW d \in 0..Depth
             PROVE  \A a, b \in Paths :
                SharesPrefix(a, b, d) => SubtreeRoot(content, a, d) = SubtreeRoot(content, b, d)
  OBVIOUS
<1>6. Depth - d \in 0..Depth /\ Depth - (Depth - d) = d
  BY <1>1
<1>7. Depth - d \in B
  BY <1>5, <1>6
<1> QED
  BY <1>6, <1>7 DEF B

\* A subtree with an entry does not look empty.
LEMMA SubtreeFilled ==
    ASSUME NEW content, Tree(content)
    PROVE  \A d \in 0..Depth : \A key \in Paths :
              Within(content, key, d) # {} => SubtreeRoot(content, key, d) # ZeroDigest
<1> DEFINE B == {n \in 0..Depth : \A key \in Paths : Within(content, key, Depth - n) # {} =>
                   SubtreeRoot(content, key, Depth - n) # ZeroDigest}
<1>1. Depth \in Nat
  BY StateTreeAssumption
<1>2. ASSUME NEW d \in 0..Depth, NEW key \in Paths, Within(content, key, d) # {},
             d < Depth => \A k \in Paths : Within(content, k, d + 1) # {} =>
                            SubtreeRoot(content, k, d + 1) # ZeroDigest
      PROVE  SubtreeRoot(content, key, d) # ZeroDigest
  <2>1. ASSUME NEW k, Within(content, key, d) = {k}
        PROVE  SubtreeRoot(content, key, d) # ZeroDigest
    <3>1. SubtreeRoot(content, key, d) = TreeLeaf(k, content[k])
      BY <2>1, SubtreeIs
    <3> QED
      BY <3>1, TreeDigestsBind
  <2>2. CASE \A k : Within(content, key, d) # {k}
    <3>1. /\ d < Depth
          /\ SubtreeRoot(content, key, d) =
                Combine(SubtreeRoot(content, Turn(key, d + 1, 0), d + 1),
                        SubtreeRoot(content, Turn(key, d + 1, 1), d + 1))
      BY <1>2, <2>2, SubtreeIs
    <3>2. PICK k \in Within(content, key, d) : TRUE
      BY <1>2
    <3>3. d + 1 \in 1..Depth /\ k \in Paths /\ (d + 1) - 1 = d
      BY <1>1, <3>1, WithinIs
    <3>4. k[d + 1] \in {0, 1}
      BY <3>3, TurnIs
    <3> DEFINE turned == Turn(key, d + 1, k[d + 1])
    <3>5. turned \in Paths
      BY <3>3, <3>4, TurnIs
    <3>6. k \in Within(content, turned, d + 1)
      <4>1. k \in DOMAIN content /\ SharesPrefix(k, key, d)
        BY <3>2 DEF Within
      <4>2. SharesPrefix(k, turned, d + 1)
        BY <3>1, <3>4, <4>1, TurnKeeps
      <4> QED
        BY <4>1, <4>2 DEF Within
    <3>7. SubtreeRoot(content, turned, d + 1) # ZeroDigest
      BY <1>2, <3>1, <3>5, <3>6
    <3>8. \/ SubtreeRoot(content, Turn(key, d + 1, 0), d + 1) # ZeroDigest
          \/ SubtreeRoot(content, Turn(key, d + 1, 1), d + 1) # ZeroDigest
      BY <3>4, <3>7
    <3> QED
      BY <3>1, <3>8, TreeDigestsBind
  <2> QED
    BY <2>1, <2>2
<1>3. 0 \in B
  <2>1. Depth \in 0..Depth /\ Depth - 0 = Depth /\ ~(Depth < Depth)
    BY <1>1
  <2>2. \A key \in Paths : Within(content, key, Depth) # {} =>
           SubtreeRoot(content, key, Depth) # ZeroDigest
    BY <1>2, <2>1
  <2> QED
    BY <1>1, <2>1, <2>2
<1>4. ASSUME NEW n \in 1..Depth, n - 1 \in B
      PROVE  n \in B
  <2>1. Depth - n \in 0..Depth /\ Depth - (n - 1) = (Depth - n) + 1 /\ n \in 0..Depth
    BY <1>1
  <2>2. \A k \in Paths : Within(content, k, (Depth - n) + 1) # {} =>
           SubtreeRoot(content, k, (Depth - n) + 1) # ZeroDigest
    BY <1>4, <2>1
  <2>3. \A key \in Paths : Within(content, key, Depth - n) # {} =>
           SubtreeRoot(content, key, Depth - n) # ZeroDigest
    BY <1>2, <2>1, <2>2
  <2> QED
    BY <2>1, <2>3
<1> HIDE DEF B
<1>5. \A n \in 0..Depth : n \in B
  BY <1>1, <1>3, <1>4, Climb
<1> SUFFICES ASSUME NEW d \in 0..Depth
             PROVE  \A key \in Paths :
                Within(content, key, d) # {} => SubtreeRoot(content, key, d) # ZeroDigest
  OBVIOUS
<1>6. Depth - d \in 0..Depth /\ Depth - (Depth - d) = d
  BY <1>1
<1>7. Depth - d \in B
  BY <1>5, <1>6
<1> QED
  BY <1>6, <1>7 DEF B

----------------------------------------------------------------------------
(* Proofs. *)

\* The root is the whole subtree of any key.
LEMMA RootIsShared ==
    ASSUME NEW content, Tree(content), NEW key \in Paths
    PROVE  Root(content) = SubtreeRoot(content, key, 0)
<1>1. Depth \in Nat /\ 0 \in 0..Depth
  BY StateTreeAssumption
<1>2. [i \in 1..Depth |-> 0] \in Paths
  BY DEF Paths
<1>3. SharesPrefix([i \in 1..Depth |-> 0], key, 0)
  BY DEF SharesPrefix
<1> QED
  BY <1>1, <1>2, <1>3, SubtreeShared DEF Root

\* Whatever is joined to a subtree's root is the root of the half it stands for.
LEMMA Descend ==
    ASSUME NEW content, Tree(content), NEW key \in Paths, NEW d \in 0..Depth, d < Depth,
           NEW sibling, NEW own,
           SubtreeRoot(content, key, d) = Joined(key, d + 1, sibling, own)
    PROVE  own = SubtreeRoot(content, key, d + 1)
<1>1. Depth \in Nat /\ d + 1 \in 1..Depth /\ d + 1 \in 0..Depth
  BY StateTreeAssumption
<1>2. Joined(key, d + 1, sibling, own) \in {Combine(sibling, own), Combine(own, sibling)}
  BY DEF Joined
<1>3. CASE Within(content, key, d) = {}
  <2>1. Within(content, key, d + 1) = {}
    BY <1>3, WithinIs
  <2>2. SubtreeRoot(content, key, d + 1) = ZeroDigest
    BY <1>1, <2>1, SubtreeIs
  <2>3. SubtreeRoot(content, key, d) = ZeroDigest
    BY <1>3, SubtreeIs
  <2> QED
    BY <1>2, <2>2, <2>3, TreeDigestsBind
<1>4. ASSUME NEW k, Within(content, key, d) = {k}
      PROVE  FALSE
  <2>1. SubtreeRoot(content, key, d) = TreeLeaf(k, content[k])
    BY <1>4, SubtreeIs
  <2> QED
    BY <1>2, <2>1, TreeDigestsBind
<1>5. CASE Within(content, key, d) # {} /\ \A k : Within(content, key, d) # {k}
  <2>1. SubtreeRoot(content, key, d) =
           Joined(key, d + 1, SubtreeRoot(content, Aside(key, d + 1), d + 1),
                  SubtreeRoot(content, key, d + 1))
    BY <1>5, SubtreeJoins
  <2>2. \A a, b, c, e : Joined(key, d + 1, a, b) = Joined(key, d + 1, c, e) => b = e
    BY TreeDigestsBind DEF Joined
  <2> QED
    BY <2>1, <2>2
<1> QED
  BY <1>3, <1>4, <1>5

\* One step up joins the deepest sibling not joined yet.
LEMMA StepUpJoins ==
    ASSUME NEW siblings, NEW key, Len(siblings) \in Nat, NEW i \in 1..Len(siblings), NEW digest
    PROVE  StepUp(siblings, key, i, digest) =
              Joined(key, (Len(siblings) - i) + 1, siblings[(Len(siblings) - i) + 1], digest)
<1>1. Len(siblings) + 1 - i = (Len(siblings) - i) + 1
  OBVIOUS
<1> QED
  BY <1>1 DEF StepUp, Joined

\* A walk that ends at the root started from the root of the key's own subtree.
LEMMA WalkDown ==
    ASSUME NEW content, Tree(content), NEW key \in Paths, NEW siblings, NEW start,
           Len(siblings) \in 0..Depth, WalkUp(siblings, key, start) = SubtreeRoot(content, key, 0)
    PROVE  start = SubtreeRoot(content, key, Len(siblings))
<1> DEFINE n == Len(siblings)
<1>1. Depth \in Nat /\ n \in Nat /\ n <= Depth
  BY StateTreeAssumption
<1>2. PICK h : Walks(h, siblings, key, start, n) /\ WalkUp(siblings, key, start) = h[n]
  BY <1>1, WalkUpIs
<1> DEFINE B == {d \in 0..n : h[n - d] = SubtreeRoot(content, key, d)}
<1>3. 0 \in B
  <2>1. n - 0 = n /\ 0 \in 0..n
    BY <1>1
  <2> QED
    BY <1>2, <2>1
<1>4. ASSUME NEW d \in 1..n, d - 1 \in B
      PROVE  d \in B
  <2> DEFINE i == n - (d - 1)
  <2>1. /\ i \in 1..n /\ i \in 0..n /\ i # 0 /\ i - 1 = n - d /\ n - i = d - 1 /\ d \in 0..n
        /\ d - 1 \in 0..Depth /\ d - 1 < Depth /\ (d - 1) + 1 = d
    BY <1>1
  <2> HIDE DEF i
  <2>2. h[i] = SubtreeRoot(content, key, d - 1)
    BY <1>4 DEF i
  <2>3. h[i] = StepUp(siblings, key, i, h[n - d])
    BY <1>2, <2>1 DEF Walks
  <2>4. h[i] = Joined(key, (d - 1) + 1, siblings[(d - 1) + 1], h[n - d])
    BY <1>1, <2>1, <2>3, StepUpJoins
  <2>5. h[n - d] = SubtreeRoot(content, key, (d - 1) + 1)
    BY <2>1, <2>2, <2>4, Descend
  <2> QED
    BY <2>1, <2>5
<1> HIDE DEF B
<1>5. n \in B
  <2>1. \A d \in 1..n : d - 1 \in B => d \in B
    BY <1>4
  <2> HIDE DEF n
  <2>2. \A d \in 0..n : d \in B
    BY <1>1, <1>3, <2>1, Climb
  <2> QED
    BY <1>1, <2>2
<1>6. h[0] = start
  BY <1>1, <1>2 DEF Walks
<1>7. n - n = 0
  BY <1>1
<1> QED
  BY <1>5, <1>6, <1>7 DEF B

\* The honest siblings lead up to the root.
LEMMA WalkAlong ==
    ASSUME NEW content, Tree(content), NEW key \in Paths, NEW siblings,
           Len(siblings) \in 0..Depth,
           \A d \in 1..Len(siblings) : siblings[d] = SubtreeRoot(content, Aside(key, d), d),
           \A d \in 0..Depth : d < Len(siblings) =>
              Within(content, key, d) # {} /\ \A k : Within(content, key, d) # {k}
    PROVE  WalkUp(siblings, key, SubtreeRoot(content, key, Len(siblings)))
              = SubtreeRoot(content, key, 0)
<1> DEFINE n == Len(siblings)
           start == SubtreeRoot(content, key, n)
<1>1. Depth \in Nat /\ n \in Nat /\ n <= Depth
  BY StateTreeAssumption
<1>2. PICK h : Walks(h, siblings, key, start, n) /\ WalkUp(siblings, key, start) = h[n]
  BY <1>1, WalkUpIs
<1> DEFINE B == {i \in 0..n : h[i] = SubtreeRoot(content, key, n - i)}
<1>3. 0 \in B
  <2>1. n - 0 = n /\ 0 \in 0..n
    BY <1>1
  <2>2. h[0] = start
    BY <1>2, <2>1 DEF Walks
  <2> QED
    BY <2>1, <2>2
<1>4. ASSUME NEW i \in 1..n, i - 1 \in B
      PROVE  i \in B
  <2> DEFINE d == n - i
  <2>1. /\ i \in 0..n /\ i # 0 /\ n - (i - 1) = d + 1 /\ d \in 0..Depth /\ d < Depth
        /\ d < n /\ d + 1 \in 1..n
    BY <1>1
  <2>2. h[i - 1] = SubtreeRoot(content, key, d + 1)
    BY <1>4, <2>1
  <2>3. h[i] = StepUp(siblings, key, i, h[i - 1])
    BY <1>2, <2>1 DEF Walks
  <2>4. h[i] = Joined(key, d + 1, siblings[d + 1], h[i - 1])
    BY <1>1, <2>3, StepUpJoins
  <2>5. siblings[d + 1] = SubtreeRoot(content, Aside(key, d + 1), d + 1)
    BY <2>1
  <2>6. SubtreeRoot(content, key, d) =
           Joined(key, d + 1, SubtreeRoot(content, Aside(key, d + 1), d + 1),
                  SubtreeRoot(content, key, d + 1))
    BY <2>1, SubtreeJoins
  <2> QED
    BY <2>1, <2>2, <2>4, <2>5, <2>6
<1> HIDE DEF B
<1>5. n \in B
  <2>1. \A i \in 1..n : i - 1 \in B => i \in B
    BY <1>4
  <2> HIDE DEF n
  <2>2. \A i \in 0..n : i \in B
    BY <1>1, <1>3, <2>1, Climb
  <2> QED
    BY <1>1, <2>2
<1>6. n - n = 0
  BY <1>1
<1> QED
  BY <1>2, <1>5, <1>6 DEF B

\* What the tree holds of a key.
Holds(content, key) == IF key \in DOMAIN content THEN {content[key]} ELSE {}

\* Whatever verifies against a tree's root is what the tree holds.
LEMMA VerifiedIsHeld ==
    ASSUME NEW content, Tree(content), NEW key \in Paths, NEW shown, NEW value,
           Len(shown.siblings) \in Nat, VerifyState(shown, Root(content), key, value)
    PROVE  value = Holds(content, key)
<1> DEFINE n == Len(shown.siblings)
           slice == Within(content, key, n)
<1>1. n \in 0..Depth
  <2>1. n <= Depth
    BY StateTreeAssumption DEF VerifyState, ComputeRoot
  <2> QED
    BY <2>1, StateTreeAssumption
<1>2. PICK start \in Terminal(shown, key, value) :
         WalkUp(shown.siblings, key, start) = Root(content)
  <2>1. {WalkUp(shown.siblings, key, s) : s \in Terminal(shown, key, value)} = {Root(content)}
    BY DEF VerifyState, ComputeRoot
  <2> QED
    BY <2>1
<1>3. start = SubtreeRoot(content, key, n)
  <2>1. WalkUp(shown.siblings, key, start) = SubtreeRoot(content, key, 0)
    BY <1>2, RootIsShared
  <2> QED
    BY <1>1, <2>1, WalkDown
<1>4. /\ slice = {} => start = ZeroDigest
      /\ \A k : slice = {k} => start = TreeLeaf(k, content[k])
      /\ slice # {} /\ (\A k : slice # {k}) =>
            start = Combine(SubtreeRoot(content, Turn(key, n + 1, 0), n + 1),
                            SubtreeRoot(content, Turn(key, n + 1, 1), n + 1))
  <2> HIDE DEF n
  <2>1. /\ slice = {} => SubtreeRoot(content, key, n) = ZeroDigest
        /\ \A k : slice = {k} => SubtreeRoot(content, key, n) = TreeLeaf(k, content[k])
        /\ slice # {} /\ (\A k : slice # {k}) =>
            SubtreeRoot(content, key, n) =
               Combine(SubtreeRoot(content, Turn(key, n + 1, 0), n + 1),
                       SubtreeRoot(content, Turn(key, n + 1, 1), n + 1))
    BY <1>1, SubtreeIs
  <2> QED
    BY <1>3, <2>1
<1>5. slice # {} => start # ZeroDigest
  BY <1>1, <1>3, SubtreeFilled
<1>6. key \in DOMAIN content <=> key \in slice
  BY DEF Within, SharesPrefix
<1>7. ASSUME NEW k, NEW v, start = TreeLeaf(k, v)
      PROVE  slice = {k} /\ v = content[k]
  <2> HIDE DEF slice, n
  <2>1. slice # {}
    BY <1>4, <1>7, TreeDigestsBind
  <2>2. start # Combine(SubtreeRoot(content, Turn(key, n + 1, 0), n + 1),
                        SubtreeRoot(content, Turn(key, n + 1, 1), n + 1))
    BY <1>7, TreeDigestsBind
  <2>3. PICK l : slice = {l}
    BY <1>4, <2>1, <2>2
  <2>4. TreeLeaf(l, content[l]) = TreeLeaf(k, v)
    BY <1>4, <1>7, <2>3
  <2>5. l = k /\ content[l] = v
    BY <2>4, TreeDigestsBind
  <2> QED
    BY <2>3, <2>5
<1> HIDE DEF slice, n
<1>8. CASE shown.terminal # {} /\ value # {}
  <2>1. PICK l \in shown.terminal : l.key = key /\ {l.value} = value /\ start = TreeLeaf(l.key, l.value)
    BY <1>2, <1>8 DEF Terminal
  <2>2. slice = {key} /\ l.value = content[key]
    BY <1>7, <2>1
  <2> QED
    BY <1>6, <2>1, <2>2 DEF Holds
<1>9. CASE shown.terminal # {} /\ value = {}
  <2>1. PICK l \in shown.terminal : l.key # key /\ start = TreeLeaf(l.key, l.value)
    BY <1>2, <1>9 DEF Terminal
  <2>2. slice = {l.key}
    BY <1>7, <2>1
  <2> QED
    BY <1>6, <1>9, <2>1, <2>2 DEF Holds
<1>10. CASE shown.terminal = {} /\ value = {}
  <2>1. start = ZeroDigest
    BY <1>2, <1>10 DEF Terminal
  <2>2. slice = {}
    BY <1>5, <2>1
  <2> QED
    BY <1>6, <1>10, <2>2 DEF Holds
<1>11. CASE shown.terminal = {} /\ value # {}
  <2>1. Terminal(shown, key, value) = {}
    BY <1>11 DEF Terminal
  <2> QED
    BY <1>2, <2>1
<1> QED
  BY <1>8, <1>9, <1>10, <1>11

\* Where the path to a key ends, and that it has not ended before.
LEMMA PathLengthIs ==
    ASSUME NEW content, Tree(content), NEW key \in Paths
    PROVE  LET n == PathLength(content, key)
           IN  /\ n \in 0..Depth
               /\ Within(content, key, n) = {} \/ \E k : Within(content, key, n) = {k}
               /\ \A d \in 0..Depth : d < n =>
                     Within(content, key, d) # {} /\ \A k : Within(content, key, d) # {k}
<1> DEFINE C == {d \in 0..Depth : Cardinality(Within(content, key, d)) <= 1}
           n == PathLength(content, key)
<1>1. Depth \in Nat /\ Depth \in 0..Depth
  BY StateTreeAssumption
<1>2. \A d \in 0..Depth : Cardinality(Within(content, key, d)) <= 1 <=>
         Within(content, key, d) = {} \/ \E k : Within(content, key, d) = {k}
  BY WithinIs, SliceSizes
<1>3. Within(content, key, Depth) = {} \/ \E k : Within(content, key, Depth) = {k}
  <2>1. Within(content, key, Depth) \subseteq {key}
    BY <1>1, WithinIs
  <2> QED
    BY <2>1
<1>4. Depth \in C
  BY <1>1, <1>2, <1>3
<1>5. IsFiniteSet(C) /\ C \subseteq Int
  <2>1. IsFiniteSet(0..Depth) /\ C \subseteq 0..Depth /\ 0..Depth \subseteq Int
    BY <1>1, FS_Interval
  <2> HIDE DEF C
  <2> QED
    BY <2>1, FS_Subset
<1>6. n = Min(C)
  BY DEF PathLength
<1> HIDE DEF n
<1>7. n \in C /\ \A m \in C : n <= m
  BY <1>4, <1>5, <1>6, MinIsSmallest
<1>8. n \in 0..Depth /\ (Within(content, key, n) = {} \/ \E k : Within(content, key, n) = {k})
  BY <1>2, <1>7
<1>9. ASSUME NEW d \in 0..Depth, d < n
      PROVE  Within(content, key, d) # {} /\ \A k : Within(content, key, d) # {k}
  <2>1. ~(n <= d)
    BY <1>8, <1>9
  <2>2. d \notin C
    BY <1>7, <2>1
  <2> QED
    BY <1>2, <2>2
<1> QED
  BY <1>8, <1>9 DEF n

\* The honest proof of what the tree holds verifies.
LEMMA HeldIsVerified ==
    ASSUME NEW content, Tree(content), NEW key \in Paths
    PROVE  /\ VerifyState(Prove(content, key), Root(content), key, Holds(content, key))
           /\ Len(Prove(content, key).siblings) \in Nat
<1> DEFINE n == PathLength(content, key)
           slice == Within(content, key, n)
           siblings == [d \in 1..n |-> SubtreeRoot(content, Aside(key, d), d)]
           terminal == {[key |-> k, value |-> content[k]] : k \in slice}
           shown == Prove(content, key)
           value == Holds(content, key)
           start == SubtreeRoot(content, key, n)
<1>1. /\ n \in 0..Depth
      /\ slice = {} \/ \E k : slice = {k}
      /\ \A d \in 0..Depth : d < n =>
            Within(content, key, d) # {} /\ \A k : Within(content, key, d) # {k}
  BY PathLengthIs
<1>2. shown = [siblings |-> siblings, terminal |-> terminal]
  BY DEF Prove
<1>3. shown.siblings = siblings /\ shown.terminal = terminal
  BY <1>2
<1> HIDE DEF n, shown
<1>4. Depth \in Nat /\ Len(siblings) = n
  BY <1>1, StateTreeAssumption
<1>5. WalkUp(siblings, key, start) = Root(content)
  <2>1. \A d \in 1..Len(siblings) : siblings[d] = SubtreeRoot(content, Aside(key, d), d)
    BY <1>4
  <2> HIDE DEF siblings
  <2>2. WalkUp(siblings, key, SubtreeRoot(content, key, Len(siblings))) = SubtreeRoot(content, key, 0)
    BY <1>1, <1>4, <2>1, WalkAlong
  <2> QED
    BY <1>4, <2>2, RootIsShared
<1>6. key \in DOMAIN content <=> key \in slice
  BY DEF Within, SharesPrefix
<1>7. /\ slice = {} => start = ZeroDigest
      /\ \A k : slice = {k} => start = TreeLeaf(k, content[k])
  BY <1>1, SubtreeIs
<1>8. \A k \in slice : SharesPrefix(k, key, n)
  BY DEF Within
<1>9. Terminal(shown, key, value) = {start}
  <2> HIDE DEF slice, start
  <2>1. CASE slice = {}
    <3>1. shown.terminal = {} /\ value = {}
      BY <1>3, <1>6, <2>1 DEF Holds
    <3> QED
      BY <1>7, <2>1, <3>1 DEF Terminal
  <2>2. ASSUME NEW k, slice = {k}
        PROVE  Terminal(shown, key, value) = {start}
    <3>1. shown.terminal = {[key |-> k, value |-> content[k]]}
      BY <1>3, <2>2
    <3>2. start = TreeLeaf(k, content[k])
      BY <1>7, <2>2
    <3>3. CASE k = key
      <4>1. value = {content[key]}
        BY <1>6, <2>2, <3>3 DEF Holds
      <4> HIDE DEF value
      <4> DEFINE found == [key |-> k, value |-> content[k]]
      <4>2. {l \in shown.terminal : l.key = key /\ {l.value} = value} = {[key |-> k, value |-> content[k]]}
        BY <3>1, <3>3, <4>1
      <4>3. shown.terminal # {} /\ value # {}
        BY <3>1, <4>1
      <4>4. Terminal(shown, key, value) = {TreeLeaf(l.key, l.value) : l \in
               {l \in shown.terminal : l.key = key /\ {l.value} = value}}
        BY <4>3 DEF Terminal
      <4>5. Terminal(shown, key, value) = {TreeLeaf(l.key, l.value) : l \in {found}}
        BY <4>2, <4>4
      <4> QED
        BY <3>2, <4>5
    <3>4. CASE k # key
      <4>1. value = {}
        BY <1>6, <2>2, <3>4 DEF Holds
      <4>2. SharesPrefix(k, key, Len(shown.siblings))
        BY <1>3, <1>4, <1>8, <2>2
      <4> HIDE DEF value
      <4> DEFINE found == [key |-> k, value |-> content[k]]
      <4>3. {l \in shown.terminal : l.key # key /\ SharesPrefix(l.key, key, Len(shown.siblings))}
               = {[key |-> k, value |-> content[k]]}
        BY <3>1, <3>4, <4>2
      <4>4. shown.terminal # {}
        BY <3>1
      <4>5. Terminal(shown, key, value) = {TreeLeaf(l.key, l.value) : l \in
               {l \in shown.terminal : l.key # key /\ SharesPrefix(l.key, key, Len(shown.siblings))}}
        BY <4>1, <4>4 DEF Terminal
      <4>6. Terminal(shown, key, value) = {TreeLeaf(l.key, l.value) : l \in {found}}
        BY <4>3, <4>5
      <4> QED
        BY <3>2, <4>6
    <3> QED
      BY <3>3, <3>4
  <2> QED
    BY <1>1, <2>1, <2>2
<1>10. ComputeRoot(shown, key, value) = {WalkUp(siblings, key, start)}
  <2>1. ~(Len(shown.siblings) > Depth)
    BY <1>1, <1>3, <1>4
  <2> HIDE DEF siblings, start, value
  <2> QED
    BY <1>3, <1>9, <2>1 DEF ComputeRoot
<1> QED
  BY <1>1, <1>3, <1>4, <1>5, <1>10 DEF VerifyState, shown

\* A root stands for one content only.
LEMMA RootsBindContents ==
    ASSUME NEW one, Tree(one), NEW other, Tree(other), Root(one) = Root(other)
    PROVE  one = other
<1>1. ASSUME NEW key \in Paths
      PROVE  Holds(one, key) = Holds(other, key)
  <2>1. /\ VerifyState(Prove(one, key), Root(other), key, Holds(one, key))
        /\ Len(Prove(one, key).siblings) \in Nat
    BY HeldIsVerified
  <2> QED
    BY <2>1, VerifiedIsHeld
<1>2. \A key \in Paths : key \in DOMAIN one <=> key \in DOMAIN other
  BY <1>1 DEF Holds
<1>3. DOMAIN one \subseteq Paths /\ DOMAIN other \subseteq Paths
  BY DEF Tree
<1>4. DOMAIN one = DOMAIN other
  BY <1>2, <1>3
<1>5. \A key \in DOMAIN one : one[key] = other[key]
  BY <1>1, <1>3, <1>4 DEF Holds
<1>6. one = [k \in DOMAIN one |-> one[k]] /\ other = [k \in DOMAIN other |-> other[k]]
  BY DEF Tree
<1> QED
  BY <1>4, <1>5, <1>6

----------------------------------------------------------------------------
TreeSpec == TreeInit /\ [][TreeNext]_treeVars
TreeInv == Tree(entries) /\ Tree(before)

LEMMA TreeInitOK == TreeInit => TreeInv
<1>1. DOMAIN <<>> = {} /\ <<>> = [k \in {} |-> <<>>[k]]
  OBVIOUS
<1>2. IsFiniteSet({})
  BY FS_EmptySet
<1> QED
  BY <1>1, <1>2 DEF TreeInit, TreeInv, Tree

LEMMA TreeStepOK == TreeInv /\ [TreeNext]_treeVars => TreeInv'
<1> SUFFICES ASSUME TreeInv, [TreeNext]_treeVars
             PROVE  TreeInv'
  OBVIOUS
<1>1. Tree(entries) /\ Tree(before)
  BY DEF TreeInv
<1>2. ASSUME NEW key \in Paths, NEW value, InsertEntry(key, value)
      PROVE  TreeInv'
  <2>1. before' = entries /\ entries' = [k \in DOMAIN entries \cup {key} |->
                     IF k = key THEN value ELSE entries[k]]
    BY <1>2 DEF InsertEntry
  <2>2. DOMAIN entries' = DOMAIN entries \cup {key}
    BY <2>1
  <2>3. IsFiniteSet(DOMAIN entries \cup {key}) /\ DOMAIN entries \cup {key} \subseteq Paths
    BY <1>1, FS_AddElement DEF Tree
  <2>4. entries' = [k \in DOMAIN entries' |-> entries'[k]]
    BY <2>1
  <2>5. Tree(entries')
    BY <2>2, <2>3, <2>4 DEF Tree
  <2> QED
    BY <1>1, <2>1, <2>5 DEF TreeInv
<1>3. ASSUME NEW key, RemoveEntry(key)
      PROVE  TreeInv'
  <2>1. before' = entries /\ entries' = [k \in DOMAIN entries \ {key} |-> entries[k]]
    BY <1>3 DEF RemoveEntry, Restrict
  <2>2. DOMAIN entries' = DOMAIN entries \ {key}
    BY <2>1
  <2>3. IsFiniteSet(DOMAIN entries) /\ DOMAIN entries \subseteq Paths
    BY <1>1 DEF Tree
  <2>4. IsFiniteSet(DOMAIN entries \ {key}) /\ DOMAIN entries \ {key} \subseteq Paths
    BY <2>3, FS_Subset
  <2>5. entries' = [k \in DOMAIN entries' |-> entries'[k]]
    BY <2>1
  <2>6. Tree(entries')
    BY <2>2, <2>4, <2>5 DEF Tree
  <2> QED
    BY <1>1, <2>1, <2>6 DEF TreeInv
<1>4. CASE UNCHANGED treeVars
  BY <1>1, <1>4 DEF treeVars, TreeInv
<1>5. \A record \in Records : StateKey(record) \in Paths
  BY StateTreeAssumption DEF StateKey, Paths
<1> QED
  BY <1>2, <1>3, <1>4, <1>5 DEF TreeNext

\* Whatever can be offered has some number of siblings.
LEMMA OfferedHasLength ==
    ASSUME TreeInv
    PROVE  \A shown \in Offered : Len(shown.siblings) \in Nat
<1> SUFFICES ASSUME NEW shown \in Offered
             PROVE  Len(shown.siblings) \in Nat
  OBVIOUS
<1>1. PICK c \in {entries, before}, key \in Keys :
         \E n \in 0..Len(Prove(c, key).siblings) :
            shown.siblings = SubSeq(Prove(c, key).siblings, 1, n)
  <2> DEFINE honest == {Prove(c, k) : c \in {entries, before}, k \in Keys}
             leaves == {{[key |-> k, value |-> v]} : k \in Keys, v \in ValueDigests} \cup {{}}
             cut == UNION {{SubSeq(p.siblings, 1, n) : n \in 0 .. Len(p.siblings)} : p \in honest}
  <2>1. shown \in [siblings : cut, terminal : leaves]
    BY DEF Offered
  <2>2. shown.siblings \in cut
    BY <2>1
  <2>3. PICK p \in honest : shown.siblings \in {SubSeq(p.siblings, 1, n) : n \in 0 .. Len(p.siblings)}
    BY <2>2
  <2>4. PICK c \in {entries, before}, key \in Keys : p = Prove(c, key)
    BY <2>3
  <2> QED
    BY <2>3, <2>4
<1>2. PICK n \in 0..Len(Prove(c, key).siblings) : shown.siblings = SubSeq(Prove(c, key).siblings, 1, n)
  BY <1>1
<1> DEFINE m == PathLength(c, key)
           siblings == [d \in 1..m |-> SubtreeRoot(c, Aside(key, d), d)]
<1>3. Tree(c) /\ key \in Paths
  BY StateTreeAssumption DEF TreeInv, Keys, StateKey, Paths
<1>4. m \in Nat
  BY <1>3, PathLengthIs, StateTreeAssumption
<1>5. Prove(c, key).siblings = siblings
  BY DEF Prove
<1> HIDE DEF m
<1>6. siblings \in Seq({SubtreeRoot(c, Aside(key, d), d) : d \in 1..m}) /\ Len(siblings) = m
  BY <1>4
<1>7. n \in 0..m
  BY <1>5, <1>6
<1> HIDE DEF siblings
<1>8. Len(SubSeq(siblings, 1, n)) = n
  BY <1>4, <1>6, <1>7, SubSeqProperties
<1> QED
  BY <1>2, <1>4, <1>5, <1>7, <1>8

\* What the state tree proves is what it holds: every honest proof verifies, nothing else does,
\* and a root stands for one content.
THEOREM TreeProofsAreExact == TreeSpec => []ProofsTellTheTruth
<1>1. TreeInv => ProofsTellTheTruth
  <2> SUFFICES ASSUME TreeInv
               PROVE  ProofsTellTheTruth
    OBVIOUS
  <2>1. Tree(entries) /\ Tree(before)
    BY DEF TreeInv
  <2>2. Keys \subseteq Paths
    BY StateTreeAssumption DEF Keys, StateKey, Paths
  <2>3. \A key \in Keys : VerifyState(Prove(entries, key), Root(entries), key, Holds(entries, key))
    BY <2>1, <2>2, HeldIsVerified
  <2>4. ASSUME NEW key \in Keys, NEW shown \in Offered, NEW value,
               VerifyState(shown, Root(entries), key, value)
        PROVE  value = Holds(entries, key)
    <3>1. Len(shown.siblings) \in Nat
      BY OfferedHasLength
    <3> QED
      BY <2>1, <2>2, <2>4, <3>1, VerifiedIsHeld
  <2>5. before # entries => Root(before) # Root(entries)
    BY <2>1, RootsBindContents
  <2> QED
    BY <2>3, <2>4, <2>5, Zenon DEF ProofsTellTheTruth, Holds
<1> QED
  BY <1>1, TreeInitOK, TreeStepOK, PTL DEF TreeSpec

----------------------------------------------------------------------------
(* The exchange as a whole. *)

\* A party that deals in one of the checks leaves the state of the others as it
\* is: every behaviour of the exchange is one of each check.
LEMMA ChecksApart == Spec => WireSpec /\ TreeSpec /\ ListSpec /\ DelaySpec /\ EvidenceSpec
<1>1. Init => WireInit /\ TreeInit /\ ListInit /\ DelayInit /\ EvidenceInit
  BY DEF Init
<1>2. [Next]_vars => [WireNext]_wireVars
  BY DEF Next, vars, wireVars, DealsInObjects, DealsInState, DealsInInclusion,
         DealsInSeeds, DealsInAddresses, DealsInEvidence
<1>3. [Next]_vars => [TreeNext]_treeVars
  BY DEF Next, vars, treeVars, DealsInObjects, DealsInState, DealsInInclusion,
         DealsInSeeds, DealsInAddresses, DealsInEvidence
<1>4. [Next]_vars => [ListNext]_listVars
  BY DEF Next, vars, listVars, DealsInObjects, DealsInState, DealsInInclusion,
         DealsInSeeds, DealsInAddresses, DealsInEvidence
<1>5. [Next]_vars => [DelayNext]_delayVars
  BY DEF Next, vars, delayVars, DealsInObjects, DealsInState, DealsInInclusion,
         DealsInSeeds, DealsInAddresses, DealsInEvidence
<1>6. [Next]_vars => [EvidenceNext]_evidenceVars
  BY DEF Next, vars, evidenceVars, DealsInObjects, DealsInState, DealsInInclusion,
         DealsInSeeds, DealsInAddresses, DealsInEvidence
<1> QED
  BY <1>1, <1>2, <1>3, <1>4, <1>5, <1>6, PTL
     DEF Spec, WireSpec, TreeSpec, ListSpec, DelaySpec, EvidenceSpec

\* What is taken from somebody else without trusting them is what it claims to
\* be, whichever of the checks a party runs: an object has one encoding, a proof
\* tells what the tree or the block holds, evidence convicts the guilty only, and
\* a sampled delay proof lets skippers through as rarely as vdf.rs says.
THEOREM ExchangeIsSound ==
    Spec => [](/\ CanonicalEncoding /\ ProofsTellTheTruth /\ OnlyListedIsIncluded
               /\ SamplingCatchesSkippers /\ OnlyDoubleSignersAreConvicted)
BY ChecksApart, EncodingIsCanonical, TreeProofsAreExact, InclusionIsExact,
   SamplingIsSound, ConvictionsAreDeserved, PTL
=============================================================================
