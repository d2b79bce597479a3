---------------------------- MODULE LedgerProofs ----------------------------
(***************************************************************************)
(* Type correctness of the ledger: through every transaction kind, every   *)
(* block and every hand-over, no amount leaves its range and no lane,      *)
(* sequence or tranche count overflows, for any instance of the constants. *)
(* Then what the ledger promises about devices, recoveries, channels,      *)
(* names and convictions: first what each group of kinds leaves alone,     *)
(* then one section per promise.                                           *)
(***************************************************************************)
EXTENDS LedgerProperties, TLAPS

----------------------------------------------------------------------------
(* Splits and funds. *)

Funds == [Accounts -> [Assets -> Nat]]

\* The three parts of a fee are amounts and add up to the fee.
LEMMA FeeSplitWhole ==
    ASSUME NEW fee \in Nat
    PROVE  /\ FeeSplit(fee).provider \in Nat
           /\ FeeSplit(fee).pot \in Nat
           /\ FeeSplit(fee).burn \in Nat
           /\ FeeSplit(fee).provider + FeeSplit(fee).pot
                + FeeSplit(fee).burn = fee
BY DEF FeeSplit

\* So are the two parts of a penalty.
LEMMA PenaltySplitWhole ==
    ASSUME NEW seized \in Nat
    PROVE  /\ PenaltySplit(seized).toDenouncer \in Nat
           /\ PenaltySplit(seized).burned \in Nat
           /\ PenaltySplit(seized).toDenouncer + PenaltySplit(seized).burned
                = seized
BY DEF PenaltySplit

LEMMA DebitType ==
    ASSUME NEW funds \in Funds, NEW a \in Accounts, NEW x \in Assets,
           NEW amount \in Nat, CanDebit(funds, a, x, amount)
    PROVE  Debit(funds, a, x, amount) \in Funds
BY DEF Funds, CanDebit, Debit

LEMMA CreditType ==
    ASSUME NEW funds \in Funds, NEW a \in Accounts, NEW x \in Assets,
           NEW amount \in Nat
    PROVE  Credit(funds, a, x, amount) \in Funds
BY DEF Funds, Credit

LEMMA AmountsAreNat == Amount \subseteq Nat /\ VAN \in Assets
BY WidthAssumption DEF Amount, Assets

\* The balances are funds, and the context has its parts.
LEMMA FundsType ==
    ASSUME TypeOK
    PROVE  /\ balance \in Funds /\ VAN \in Assets
           /\ ctx \in Context /\ ctx.proposer \in Accounts /\ ctx.finalized \in Height
<1>1. balance \in [Accounts -> [Assets -> Amount]] /\ ctx \in Context
  BY Zenon DEF TypeOK
<1>2. balance \in Funds
  BY <1>1, AmountsAreNat DEF Funds
<1>3. ctx.proposer \in Accounts /\ ctx.finalized \in Height
  BY <1>1 DEF Context
<1> QED
  BY <1>1, <1>2, <1>3, AmountsAreNat

\* A body of the instance is a body.
LEMMA BodyType ==
    ASSUME NEW b \in Presentable
    PROVE  /\ b \in Body
           /\ b.account \in Accounts /\ b.device \in Keys
           /\ b.lane \in Lane /\ b.sequence \in Sequence
           /\ b.fee \in Nat
BY InputAssumption, AmountsAreNat DEF Presentable, Bodies, Body

\* What is left once the fee is paid is funds again.
LEMMA AfterFeeType ==
    ASSUME TypeOK, NEW b \in Presentable, NEW kind, NEW native,
           Admits(b, kind, native)
    PROVE  AfterFee(b) \in Funds
<1>1. balance \in Funds /\ ctx.proposer \in Accounts
  BY FundsType
<1>2. b.account \in Accounts /\ b.fee \in Nat
  BY BodyType
<1>3. Debit(balance, b.account, VAN, b.fee) \in Funds
  BY <1>1, <1>2, AmountsAreNat, DebitType DEF Admits
<1>4. FeeSplit(b.fee).provider \in Nat
  BY <1>2, FeeSplitWhole
<1> QED
  BY <1>1, <1>3, <1>4, AmountsAreNat, CreditType DEF AfterFee

----------------------------------------------------------------------------
(* What every transaction touches: money, nonce and device counters. *)

DeviceMaps == [Accounts -> [Keys -> Device \cup {None}]]

CommonTypeOK ==
    /\ balance \in [Accounts -> [Assets -> Amount]]
    /\ burned \in Amount /\ contextPot \in Amount /\ feesCollected \in Amount
    /\ devices \in DeviceMaps
    /\ lanes \in [Accounts -> [Lane -> Sequence]]

\* Collecting a fee keeps every amount in its range.
LEMMA CollectType ==
    ASSUME TypeOK, NEW b \in Presentable, NEW funds \in Funds,
           NEW penalty \in Nat, Collect(b, funds, penalty)
    PROVE  /\ balance' \in [Accounts -> [Assets -> Amount]]
           /\ burned' \in Amount /\ contextPot' \in Amount
           /\ feesCollected' \in Amount
<1>1. /\ FeeSplit(b.fee).burn \in Nat /\ FeeSplit(b.fee).pot \in Nat
      /\ b.fee \in Nat
  BY BodyType, FeeSplitWhole
<1>2. burned \in Nat /\ contextPot \in Nat /\ feesCollected \in Nat
  BY AmountsAreNat DEF TypeOK
<1>3. balance' \in [Accounts -> [Assets -> Amount]]
  BY DEF Collect, Funds, Amount
<1>4. burned' \in Amount
  BY <1>1, <1>2 DEF Collect, Amount
<1>5. contextPot' \in Amount
  BY <1>1, <1>2 DEF Collect, Amount
<1>6. feesCollected' \in Amount
  BY <1>1, <1>2 DEF Collect, Amount
<1> QED
  BY <1>3, <1>4, <1>5, <1>6

\* What a device has left offline is what bounds its counter.
LEMMA SpentStaysAmount ==
    ASSUME NEW device \in Device, NEW outflow \in Nat,
           outflow <= Remaining(device)
    PROVE  [device EXCEPT !.spent = @ + outflow] \in Device
BY WidthAssumption DEF Device, Remaining, Amount

\* Spending the nonce keeps the counters in their ranges.
LEMMA ConsumeType ==
    ASSUME TypeOK, NEW b \in Presentable, NEW kind, NEW native \in Nat,
           Admits(b, kind, native), NEW registered \in DeviceMaps,
           InPartition => registered = devices,
           Consume(b, registered, native)
    PROVE  devices' \in DeviceMaps /\ lanes' \in [Accounts -> [Lane -> Sequence]]
<1>1. /\ b.account \in Accounts /\ b.device \in Keys /\ b.lane \in Lane
      /\ b.fee \in Nat
  BY BodyType
<1>2. lanes' \in [Accounts -> [Lane -> Sequence]]
  BY <1>1, NonceAssumption DEF Consume, TypeOK, Sequence
<1>3. CASE InPartition /\ registered[b.account][b.device] # None
  <2>1. registered[b.account][b.device] \in Device
    BY <1>1, <1>3 DEF DeviceMaps
  <2>2. Outflow(b, native) \in Nat
    BY <1>1 DEF Outflow
  <2>3. Outflow(b, native) <= Remaining(registered[b.account][b.device])
    BY <1>3 DEF Admits, NomadAllows
  <2>4. [registered[b.account][b.device] EXCEPT
            !.spent = @ + Outflow(b, native)] \in Device
    BY <2>1, <2>2, <2>3, SpentStaysAmount
  <2> QED
    BY <1>1, <1>2, <1>3, <2>4 DEF Consume, DeviceMaps
<1>4. CASE ~(InPartition /\ registered[b.account][b.device] # None)
  BY <1>2, <1>4 DEF Consume
<1> QED
  BY <1>3, <1>4

\* Both together, for a transaction of any kind.
LEMMA CommonType ==
    ASSUME TypeOK, NEW b \in Presentable, NEW kind, NEW native \in Nat,
           Is(b, kind, native), NEW funds \in Funds, NEW penalty \in Nat,
           NEW registered \in DeviceMaps,
           InPartition => registered = devices,
           Collect(b, funds, penalty), Consume(b, registered, native)
    PROVE  CommonTypeOK'
BY CollectType, ConsumeType DEF CommonTypeOK, Is

\* The kinds that move no money but their fee.
LEMMA FeeOnlyType ==
    ASSUME TypeOK, NEW b \in Presentable, NEW kind, Is(b, kind, 0),
           FeeOnly(b), NonceOnly(b)
    PROVE  CommonTypeOK'
<1>1. AfterFee(b) \in Funds /\ devices \in DeviceMaps
  BY AfterFeeType DEF Is, TypeOK, DeviceMaps
<1> QED
  BY <1>1, CommonType DEF FeeOnly, NonceOnly

\* A kind outside the partition grammar finds the chain finalising.
LEMMA OnlyOnChain ==
    ASSUME NEW b, NEW kind, NEW native, Is(b, kind, native),
           kind \notin AllowedInProvisional
    PROVE  ~InPartition
BY DEF Is, Admits, Envelope


----------------------------------------------------------------------------
(* The kinds that move money. *)

LEMMA SumsAreNat == Sums \subseteq Nat
BY InputAssumption, AmountsAreNat

LEMMA NativeType ==
    ASSUME NEW x, NEW n \in Nat
    PROVE  Native(x, n) \in Nat
BY DEF Native

LEMMA TransferType ==
    ASSUME TypeOK, NEW b \in Presentable, NEW to \in Accounts,
           NEW x \in Assets, NEW n \in Sums, Transfer(b, to, x, n)
    PROVE  TypeOK'
<1>1. /\ Is(b, "Transfer", Native(x, n)) /\ n \in Nat /\ Native(x, n) \in Nat
      /\ b.account \in Accounts /\ devices \in DeviceMaps
  BY SumsAreNat, NativeType, BodyType DEF Transfer, TypeOK, DeviceMaps
<1>2. AfterFee(b) \in Funds
  BY <1>1, AfterFeeType DEF Is
<1>3. Debit(AfterFee(b), b.account, x, n) \in Funds
  BY <1>1, <1>2, DebitType DEF Transfer
<1>4. Credit(Debit(AfterFee(b), b.account, x, n), to, x, n) \in Funds
  BY <1>1, <1>3, CreditType
<1>5. CommonTypeOK'
  BY <1>1, <1>4, CommonType DEF Transfer
<1> QED
  BY <1>5
     DEF Transfer, TypeOK, CommonTypeOK, DeviceMaps, PurseTypeOK,
         RecoveryTypeOK, NameTypeOK, AssetTypeOK, SlashingTypeOK,
         identityVars, nomadVars, guardianVars, bookVars,
         purseVars, nameVars, slashingVars, historyVars

LEMMA BondType ==
    ASSUME TypeOK, NEW b \in Presentable, NEW n \in Sums, Bond(b, n)
    PROVE  TypeOK'
<1>1. /\ Is(b, "Bond", n) /\ n \in Nat
      /\ b.account \in Accounts /\ devices \in DeviceMaps
  BY SumsAreNat, BodyType DEF Bond, TypeOK, DeviceMaps
<1>2. AfterFee(b) \in Funds
  BY <1>1, AfterFeeType DEF Is
<1>3. Debit(AfterFee(b), b.account, VAN, n) \in Funds
  BY <1>1, <1>2, AmountsAreNat, DebitType DEF Bond
<1>4. CommonTypeOK'
  BY <1>1, <1>3, CommonType DEF Bond
<1>5. bonded' \in [Accounts -> Amount]
  BY <1>1, WidthAssumption DEF Bond, TypeOK, Amount
<1> QED
  BY <1>4, <1>5
     DEF Bond, TypeOK, CommonTypeOK, DeviceMaps, PurseTypeOK,
         RecoveryTypeOK, NameTypeOK, AssetTypeOK, SlashingTypeOK,
         identityVars, nomadVars, guardianVars, bookVars,
         purseVars, nameVars, slashingVars, historyVars

LEMMA UnbondType ==
    ASSUME TypeOK, NEW b \in Presentable, NEW n \in Sums, Unbond(b, n)
    PROVE  TypeOK'
<1>1. /\ Is(b, "Unbond", 0) /\ n \in Nat
      /\ b.account \in Accounts /\ devices \in DeviceMaps
  BY SumsAreNat, BodyType DEF Unbond, TypeOK, DeviceMaps
<1>2. AfterFee(b) \in Funds
  BY <1>1, AfterFeeType DEF Is
<1>3. Credit(AfterFee(b), b.account, VAN, n) \in Funds
  BY <1>1, <1>2, AmountsAreNat, CreditType
<1>4. CommonTypeOK'
  BY <1>1, <1>3, CommonType DEF Unbond, NonceOnly
<1>5. bonded' \in [Accounts -> Amount]
  BY <1>1, WidthAssumption DEF Unbond, TypeOK, Amount
<1> QED
  BY <1>4, <1>5
     DEF Unbond, TypeOK, CommonTypeOK, DeviceMaps, PurseTypeOK,
         RecoveryTypeOK, NameTypeOK, AssetTypeOK, SlashingTypeOK,
         identityVars, nomadVars, guardianVars, bookVars,
         purseVars, nameVars, slashingVars, historyVars

\* A penalty paid out keeps them all in range.
LEMMA PenaltyType ==
    ASSUME TypeOK, NEW b \in Presentable, NEW kind, Is(b, kind, 0),
           NEW seized \in Nat, PayPenalty(b, seized), NonceOnly(b)
    PROVE  CommonTypeOK'
<1>1. /\ b.account \in Accounts /\ devices \in DeviceMaps
      /\ PenaltySplit(seized).toDenouncer \in Nat
      /\ PenaltySplit(seized).burned \in Nat
  BY BodyType, PenaltySplitWhole DEF TypeOK, DeviceMaps
<1>2. AfterFee(b) \in Funds
  BY AfterFeeType DEF Is
<1>3. Credit(AfterFee(b), b.account, VAN,
             PenaltySplit(seized).toDenouncer) \in Funds
  BY <1>1, <1>2, AmountsAreNat, CreditType
<1> QED
  BY <1>1, <1>3, CommonType DEF PayPenalty, NonceOnly

LEMMA AccountEquivocationType ==
    ASSUME TypeOK, NEW b \in Presentable, NEW a \in Accounts,
           NEW d \in Keys, NEW l \in Lane, NEW s \in Sequence,
           AccountEquivocation(b, a, d, l, s)
    PROVE  TypeOK'
<1>1. nomadMargin[a] \in Nat /\ 0 \in Amount
  BY WidthAssumption, AmountsAreNat DEF TypeOK, Amount
<1>2. CommonTypeOK'
  BY <1>1, PenaltyType DEF AccountEquivocation
<1>3. nomadMargin' \in [Accounts -> Amount] /\ seizedMargin' \in Nat
  BY <1>1 DEF AccountEquivocation, TypeOK
<1>4. SlashingTypeOK'
  BY DEF AccountEquivocation, RecordAccount, AccountOffence, TypeOK,
         SlashingTypeOK
<1> QED
  BY <1>2, <1>3, <1>4
     DEF AccountEquivocation, TypeOK, CommonTypeOK, DeviceMaps, PurseTypeOK,
         RecoveryTypeOK, NameTypeOK, AssetTypeOK, SlashingTypeOK,
         identityVars, nomadVars, guardianVars, bookVars,
         purseVars, nameVars, slashingVars, historyVars

LEMMA ValidatorEquivocationType ==
    ASSUME TypeOK, NEW b \in Presentable, NEW a \in Accounts,
           NEW h \in 1..LastHeight, ValidatorEquivocation(b, a, h)
    PROVE  TypeOK'
<1>1. bonded[a] \in Nat /\ 0 \in Amount
  BY WidthAssumption, AmountsAreNat DEF TypeOK, Amount
<1>2. CommonTypeOK'
  BY <1>1, PenaltyType DEF ValidatorEquivocation
<1>3. bonded' \in [Accounts -> Amount]
  BY <1>1 DEF ValidatorEquivocation, TypeOK
<1>4. SlashingTypeOK'
  BY GenesisAssumption, WidthAssumption
     DEF ValidatorEquivocation, RecordValidator, ValidatorOffence, TypeOK,
         SlashingTypeOK, Height
<1> QED
  BY <1>2, <1>3, <1>4
     DEF ValidatorEquivocation, TypeOK, CommonTypeOK, DeviceMaps, PurseTypeOK,
         RecoveryTypeOK, NameTypeOK, AssetTypeOK, SlashingTypeOK,
         identityVars, nomadVars, guardianVars, bookVars,
         purseVars, nameVars, slashingVars, historyVars

----------------------------------------------------------------------------
(* Offline credit and devices. *)

LEMMA NomadSetType ==
    ASSUME TypeOK, NEW b \in Presentable, NEW credit \in Sums,
           NEW margin \in Sums, NomadSet(b, credit, margin)
    PROVE  TypeOK'
<1>1. CommonTypeOK'
  BY FeeOnlyType DEF NomadSet
<1>2. /\ nomadCredit' \in [Accounts -> Amount]
      /\ nomadMargin' \in [Accounts -> Amount]
  BY InputAssumption DEF NomadSet, TypeOK
<1> QED
  BY <1>1, <1>2
     DEF NomadSet, TypeOK, CommonTypeOK, DeviceMaps, PurseTypeOK,
         RecoveryTypeOK, NameTypeOK, AssetTypeOK, SlashingTypeOK,
         identityVars, nomadVars, guardianVars, bookVars,
         purseVars, nameVars, slashingVars, historyVars

\* Installing a device keeps the high-water mark below the last lane.
LEMMA InstallType ==
    ASSUME TypeOK, NEW a \in Accounts, NEW d \in Keys, NEW l \in Lane,
           Install(a, d, l)
    PROVE  /\ nextLane' \in [Accounts -> Lane]
           /\ laneHolders' \subseteq Accounts \X Lane \X Keys
<1>1. l + 1 \in Lane
  BY NonceAssumption DEF Install, Lane
<1> QED
  BY <1>1 DEF Install, TypeOK

LEMMA DeviceAddType ==
    ASSUME TypeOK, NEW b \in Presentable, NEW d \in Keys, NEW l \in Lane,
           NEW n \in Sums, DeviceAdd(b, d, l, n)
    PROVE  TypeOK'
<1> DEFINE registered ==
        [devices EXCEPT ![b.account][d] =
            [lane |-> l, share |-> n, spent |-> 0]]
<1>1. /\ Is(b, "DeviceAdd", 0) /\ AfterFee(b) \in Funds
      /\ Collect(b, AfterFee(b), 0) /\ Consume(b, registered, 0)
  BY AfterFeeType DEF DeviceAdd, Is, FeeOnly
<1>2. ~InPartition
  BY <1>1, OnlyOnChain DEF AllowedInProvisional
<1>3. [lane |-> l, share |-> n, spent |-> 0] \in Device
  BY InputAssumption, WidthAssumption DEF Device, Amount
<1>4. registered \in DeviceMaps
  BY <1>3, BodyType DEF TypeOK, DeviceMaps
<1> HIDE DEF registered
<1>5. CommonTypeOK'
  BY <1>1, <1>2, <1>4, CommonType
<1>6. /\ nextLane' \in [Accounts -> Lane]
      /\ laneHolders' \subseteq Accounts \X Lane \X Keys
  BY InstallType, BodyType DEF DeviceAdd
<1> QED
  BY <1>5, <1>6
     DEF DeviceAdd, TypeOK, CommonTypeOK, DeviceMaps, PurseTypeOK,
         RecoveryTypeOK, NameTypeOK, AssetTypeOK, SlashingTypeOK,
         identityVars, nomadVars, guardianVars, bookVars,
         purseVars, nameVars, slashingVars, historyVars

LEMMA DeviceRevokeType ==
    ASSUME TypeOK, NEW b \in Presentable, NEW d \in Keys, DeviceRevoke(b, d)
    PROVE  TypeOK'
<1> DEFINE registered == [devices EXCEPT ![b.account][d] = None]
<1>1. /\ Is(b, "DeviceRevoke", 0) /\ AfterFee(b) \in Funds
      /\ Collect(b, AfterFee(b), 0) /\ Consume(b, registered, 0)
  BY AfterFeeType DEF DeviceRevoke, Is, FeeOnly
<1>2. ~InPartition
  BY <1>1, OnlyOnChain DEF AllowedInProvisional
<1>3. registered \in DeviceMaps
  BY BodyType DEF TypeOK, DeviceMaps
<1> HIDE DEF registered
<1>4. CommonTypeOK'
  BY <1>1, <1>2, <1>3, CommonType
<1>5. revoked' \in [Accounts -> SUBSET Keys]
  BY BodyType DEF DeviceRevoke, TypeOK
<1> QED
  BY <1>4, <1>5
     DEF DeviceRevoke, TypeOK, CommonTypeOK, DeviceMaps, PurseTypeOK,
         RecoveryTypeOK, NameTypeOK, AssetTypeOK, SlashingTypeOK,
         identityVars, nomadVars, guardianVars, bookVars,
         purseVars, nameVars, slashingVars, historyVars

----------------------------------------------------------------------------
(* Social recovery. *)

LEMMA GuardianSetType ==
    ASSUME TypeOK, NEW b \in Presentable, NEW s \in GuardianChoices,
           NEW q \in ThresholdChoices, GuardianSet(b, s, q)
    PROVE  TypeOK'
<1>1. CommonTypeOK'
  BY FeeOnlyType DEF GuardianSet
<1>2. /\ guardians' \in [Accounts -> SUBSET Accounts]
      /\ threshold' \in [Accounts -> Nat]
  BY InputAssumption DEF GuardianSet, TypeOK
<1> QED
  BY <1>1, <1>2
     DEF GuardianSet, TypeOK, CommonTypeOK, DeviceMaps, PurseTypeOK,
         RecoveryTypeOK, NameTypeOK, AssetTypeOK, SlashingTypeOK,
         identityVars, nomadVars, guardianVars, bookVars,
         purseVars, nameVars, slashingVars, historyVars

LEMMA RecoveryStartType ==
    ASSUME TypeOK, NEW b \in Presentable, NEW a \in Accounts, NEW d \in Keys,
           RecoveryStart(b, a, d)
    PROVE  TypeOK'
<1>1. CommonTypeOK'
  BY FeeOnlyType DEF RecoveryStart
<1>2. ctx.finalized \in Height /\ b.account \in Accounts
  BY BodyType, FundsType
<1>3. RecoveryTypeOK'
  <2>0. /\ recoveries \in [Accounts -> Pending \cup {None}]
        /\ Approve(a, d, b.account, guardians[a], ctx.finalized)
    BY Zenon DEF TypeOK, RecoveryTypeOK, RecoveryStart
  <2>1. CASE ~IsRecovering(a)
    <3>1. [newKey |-> d, approvals |-> {b.account},
           openedAt |-> ctx.finalized] \in Pending
      BY <1>2 DEF Pending
    <3>2. recoveries' = [recoveries EXCEPT ![a] =
             [newKey |-> d, approvals |-> {b.account}, openedAt |-> ctx.finalized]]
      BY <2>0, <2>1, Zenon DEF Approve
    <3> QED
      BY <2>0, <3>1, <3>2 DEF RecoveryTypeOK
  <2>2. CASE IsRecovering(a)
    <3>1. recoveries[a] \in Pending
      BY <2>0, <2>2 DEF IsRecovering
    <3>2. [recoveries[a] EXCEPT !.approvals = @ \cup {b.account}] \in Pending
      BY <1>2, <3>1 DEF Pending
    <3>3. recoveries' = [recoveries EXCEPT ![a].approvals = @ \cup {b.account}]
      BY <2>0, <2>2, Zenon DEF Approve
    <3> QED
      BY <2>0, <3>2, <3>3 DEF RecoveryTypeOK
  <2> QED
    BY <2>1, <2>2
<1> QED
  BY <1>1, <1>3
     DEF RecoveryStart, TypeOK, CommonTypeOK, DeviceMaps, PurseTypeOK,
         RecoveryTypeOK, NameTypeOK, AssetTypeOK, SlashingTypeOK,
         identityVars, nomadVars, guardianVars, bookVars,
         purseVars, nameVars, slashingVars, historyVars

LEMMA RecoveryCancelType ==
    ASSUME TypeOK, NEW b \in Presentable, NEW a \in Accounts,
           RecoveryCancel(b, a)
    PROVE  TypeOK'
<1>1. CommonTypeOK'
  BY FeeOnlyType DEF RecoveryCancel
<1>2. RecoveryTypeOK'
  BY DEF RecoveryCancel, Cancel, RecoveryTypeOK, TypeOK
<1> QED
  BY <1>1, <1>2
     DEF RecoveryCancel, TypeOK, CommonTypeOK, DeviceMaps, PurseTypeOK,
         RecoveryTypeOK, NameTypeOK, AssetTypeOK, SlashingTypeOK,
         identityVars, nomadVars, guardianVars, bookVars,
         purseVars, nameVars, slashingVars, historyVars

LEMMA RecoveryFinaliseType ==
    ASSUME TypeOK, NEW b \in Presentable, NEW a \in Accounts,
           RecoveryFinalise(b, a)
    PROVE  TypeOK'
<1> DEFINE newDevice == [lane |-> nextLane[a], share |-> 0, spent |-> 0]
           registered ==
                [devices EXCEPT ![a] =
                    [d \in Keys |-> IF d = recoveries[a].newKey
                                    THEN newDevice ELSE None]]
<1>1. /\ Is(b, "RecoveryFinalise", 0) /\ AfterFee(b) \in Funds
      /\ Collect(b, AfterFee(b), 0) /\ Consume(b, registered, 0)
  BY AfterFeeType DEF RecoveryFinalise, Is, FeeOnly
<1>2. ~InPartition
  BY <1>1, OnlyOnChain DEF AllowedInProvisional
<1>3. newDevice \in Device /\ 0 \in Amount
  BY WidthAssumption DEF TypeOK, Device, Amount
<1>4. registered \in DeviceMaps
  BY <1>3 DEF TypeOK, DeviceMaps
<1> HIDE DEF registered
<1>5. CommonTypeOK'
  BY <1>1, <1>2, <1>4, CommonType
<1>6. recoveries[a].newKey \in Keys
  BY DEF RecoveryFinalise, Finalise, IsRecovering, TypeOK, RecoveryTypeOK,
         Pending
<1>7. /\ nextLane' \in [Accounts -> Lane]
      /\ laneHolders' \subseteq Accounts \X Lane \X Keys
  BY <1>6, InstallType DEF RecoveryFinalise, TypeOK
<1>8. /\ revoked' \in [Accounts -> SUBSET Keys]
      /\ nomadCredit' \in [Accounts -> Amount]
      /\ RecoveryTypeOK'
  BY <1>3 DEF RecoveryFinalise, Finalise, Registered, TypeOK, RecoveryTypeOK
<1> QED
  BY <1>5, <1>7, <1>8
     DEF RecoveryFinalise, TypeOK, CommonTypeOK, DeviceMaps, PurseTypeOK,
         RecoveryTypeOK, NameTypeOK, AssetTypeOK, SlashingTypeOK,
         identityVars, nomadVars, guardianVars, bookVars,
         purseVars, nameVars, slashingVars, historyVars

----------------------------------------------------------------------------
(* Channels. *)

\* A channel's capacity is a tranche count, whatever its deposit.
LEMMA CapacityType ==
    ASSUME NEW deposit \in Nat, NEW trancheValue \in Nat \ {0}
    PROVE  Capacity(deposit, trancheValue) \in Tranches
<1>1. deposit \div trancheValue \in Nat
  OBVIOUS
<1> QED
  BY <1>1, PurseAssumption DEF Capacity, Lesser, Tranches

LEMMA PurseOpenType ==
    ASSUME TypeOK, NEW b \in Presentable, NEW p \in PurseIds,
           NEW payee \in Accounts, NEW x \in Assets,
           NEW deposit \in Sums, NEW trancheValue \in Sums,
           PurseOpen(b, p, payee, x, deposit, trancheValue)
    PROVE  TypeOK'
<1>1. /\ Is(b, "PurseOpen", Native(x, deposit))
      /\ deposit \in Nat /\ Native(x, deposit) \in Nat
      /\ trancheValue \in Amount \ {0}
      /\ b.account \in Accounts /\ devices \in DeviceMaps
  BY SumsAreNat, InputAssumption, NativeType, BodyType
     DEF PurseOpen, OpenPurse, TypeOK, DeviceMaps
<1>2. AfterFee(b) \in Funds
  BY <1>1, AfterFeeType DEF Is
<1>3. Debit(AfterFee(b), b.account, x, deposit) \in Funds
  BY <1>1, <1>2, DebitType DEF PurseOpen
<1>4. CommonTypeOK'
  BY <1>1, <1>3, CommonType DEF PurseOpen
<1>5. [payer |-> b.account, payee |-> payee, asset |-> x,
       deposit |-> deposit, trancheValue |-> trancheValue,
       capacity |-> Capacity(deposit, trancheValue),
       closing |-> None] \in Purse
  BY <1>1, AmountsAreNat, CapacityType, InputAssumption DEF Purse
<1>6. PurseTypeOK'
  BY <1>5 DEF PurseOpen, OpenPurse, TypeOK, PurseTypeOK
<1> QED
  BY <1>4, <1>6
     DEF PurseOpen, TypeOK, CommonTypeOK, DeviceMaps, PurseTypeOK,
         RecoveryTypeOK, NameTypeOK, AssetTypeOK, SlashingTypeOK,
         identityVars, nomadVars, guardianVars, bookVars,
         purseVars, nameVars, slashingVars, historyVars

LEMMA PurseCloseCooperativeType ==
    ASSUME TypeOK, NEW b \in Presentable, NEW p \in PurseIds,
           NEW m \in Sums, NEW n \in Sums, PurseCloseCooperative(b, p, m, n)
    PROVE  TypeOK'
<1>1. /\ Is(b, "PurseCloseCooperative", 0) /\ m \in Nat /\ n \in Nat
      /\ devices \in DeviceMaps
  BY SumsAreNat DEF PurseCloseCooperative, TypeOK, DeviceMaps
<1>2. /\ purses[p].payer \in Accounts /\ purses[p].payee \in Accounts
      /\ purses[p].asset \in Assets
  BY DEF PurseCloseCooperative, CloseCooperative, IsOpen, TypeOK,
         PurseTypeOK, Purse
<1>3. AfterFee(b) \in Funds
  BY <1>1, AfterFeeType DEF Is
<1>4. Credit(AfterFee(b), purses[p].payer, purses[p].asset, m) \in Funds
  BY <1>1, <1>2, <1>3, CreditType
<1>5. Credit(Credit(AfterFee(b), purses[p].payer, purses[p].asset, m),
             purses[p].payee, purses[p].asset, n) \in Funds
  BY <1>1, <1>2, <1>4, CreditType
<1>6. CommonTypeOK'
  BY <1>1, <1>5, CommonType DEF PurseCloseCooperative, NonceOnly
<1>7. PurseTypeOK'
  BY PurseAssumption
     DEF PurseCloseCooperative, CloseCooperative, TypeOK, PurseTypeOK, Tranches
<1> QED
  BY <1>6, <1>7
     DEF PurseCloseCooperative, TypeOK, CommonTypeOK, DeviceMaps, PurseTypeOK,
         RecoveryTypeOK, NameTypeOK, AssetTypeOK, SlashingTypeOK,
         identityVars, nomadVars, guardianVars, bookVars,
         purseVars, nameVars, slashingVars, historyVars

LEMMA PurseCloseUnilateralType ==
    ASSUME TypeOK, NEW b \in Presentable, NEW p \in PurseIds,
           NEW n \in Tranches, PurseCloseUnilateral(b, p, n)
    PROVE  TypeOK'
<1>1. CommonTypeOK'
  BY FeeOnlyType DEF PurseCloseUnilateral
<1>2. [claimant |-> b.account, claimed |-> n, openedAt |-> ctx.finalized,
       disputed |-> FALSE] \in Closure
  BY BodyType DEF TypeOK, Context, Closure
<1>3. purses[p] \in Purse
  BY DEF PurseCloseUnilateral, BeginUnilateral, IsOpen, TypeOK, PurseTypeOK
<1>4. [purses[p] EXCEPT !.closing =
        [claimant |-> b.account, claimed |-> n, openedAt |-> ctx.finalized,
         disputed |-> FALSE]] \in Purse
  BY <1>2, <1>3 DEF Purse
<1>5. PurseTypeOK'
  BY <1>4 DEF PurseCloseUnilateral, BeginUnilateral, TypeOK, PurseTypeOK
<1> QED
  BY <1>1, <1>5
     DEF PurseCloseUnilateral, TypeOK, CommonTypeOK, DeviceMaps, PurseTypeOK,
         RecoveryTypeOK, NameTypeOK, AssetTypeOK, SlashingTypeOK,
         identityVars, nomadVars, guardianVars, bookVars,
         purseVars, nameVars, slashingVars, historyVars

LEMMA PurseDisputeType ==
    ASSUME TypeOK, NEW b \in Presentable, NEW p \in PurseIds,
           NEW n \in Tranches, PurseDispute(b, p, n)
    PROVE  TypeOK'
<1>1. CommonTypeOK'
  BY FeeOnlyType DEF PurseDispute
<1>2. purses[p] \in Purse /\ purses[p].closing \in Closure
  BY DEF PurseDispute, Dispute, IsClosing, IsOpen, TypeOK, PurseTypeOK, Purse
<1>3. [purses[p].closing EXCEPT !.claimed = n, !.disputed = TRUE] \in Closure
  BY <1>2 DEF Closure
<1>4. [purses[p] EXCEPT !.closing =
        [purses[p].closing EXCEPT !.claimed = n, !.disputed = TRUE]] \in Purse
  BY <1>2, <1>3 DEF Purse
<1>5. PurseTypeOK'
  BY <1>4 DEF PurseDispute, Dispute, TypeOK, PurseTypeOK
<1> QED
  BY <1>1, <1>5
     DEF PurseDispute, TypeOK, CommonTypeOK, DeviceMaps, PurseTypeOK,
         RecoveryTypeOK, NameTypeOK, AssetTypeOK, SlashingTypeOK,
         identityVars, nomadVars, guardianVars, bookVars,
         purseVars, nameVars, slashingVars, historyVars

LEMMA SpendType ==
    ASSUME TypeOK, NEW p \in PurseIds, NEW n \in Tranches, Spend(p, n)
    PROVE  TypeOK'
<1>1. PurseTypeOK'
  BY DEF Spend, HandOverToken, TypeOK, PurseTypeOK
<1> QED
  BY <1>1
     DEF Spend, feeVars, TypeOK, CommonTypeOK, DeviceMaps, PurseTypeOK,
         RecoveryTypeOK, NameTypeOK, AssetTypeOK, SlashingTypeOK,
         identityVars, nomadVars, guardianVars, bookVars,
         purseVars, nameVars, slashingVars, historyVars

----------------------------------------------------------------------------
(* Local assets and names. *)

LEMMA AssetCreateType ==
    ASSUME TypeOK, NEW b \in Presentable, NEW x \in AssetIds,
           NEW t \in Tickers, NEW open \in BOOLEAN, AssetCreate(b, x, t, open)
    PROVE  TypeOK'
<1>1. CommonTypeOK'
  BY FeeOnlyType DEF AssetCreate
<1>2. [issuer |-> b.account, ticker |-> t, reissuable |-> open, supply |-> 0]
        \in AssetRecord
  BY BodyType, WidthAssumption DEF AssetRecord, Amount
<1>3. AssetTypeOK'
  BY <1>2 DEF AssetCreate, Create, TypeOK, AssetTypeOK
<1> QED
  BY <1>1, <1>3
     DEF AssetCreate, TypeOK, CommonTypeOK, DeviceMaps, PurseTypeOK,
         RecoveryTypeOK, NameTypeOK, AssetTypeOK, SlashingTypeOK,
         identityVars, nomadVars, guardianVars, bookVars,
         purseVars, nameVars, slashingVars, historyVars

LEMMA AssetMintType ==
    ASSUME TypeOK, NEW b \in Presentable, NEW x \in AssetIds,
           NEW a \in Accounts, NEW n \in Sums, AssetMint(b, x, a, n)
    PROVE  TypeOK'
<1>1. /\ Is(b, "AssetMint", 0) /\ n \in Nat /\ x \in Assets
      /\ devices \in DeviceMaps
  BY SumsAreNat DEF AssetMint, TypeOK, DeviceMaps, Assets
<1>2. AfterFee(b) \in Funds
  BY <1>1, AfterFeeType DEF Is
<1>3. CommonTypeOK'
  BY <1>1, <1>2, CreditType, CommonType DEF AssetMint, NonceOnly
<1>4. /\ assets[x] \in AssetRecord
      /\ assets[x].supply + n <= MaxAmount
  BY DEF AssetMint, AuthoriseMint, Exists, TypeOK, AssetTypeOK
<1>5. [assets[x] EXCEPT !.supply = @ + n] \in AssetRecord
  BY <1>1, <1>4, WidthAssumption DEF AssetRecord, Amount
<1>6. AssetTypeOK'
  BY <1>5 DEF AssetMint, AuthoriseMint, TypeOK, AssetTypeOK
<1> QED
  BY <1>3, <1>6
     DEF AssetMint, TypeOK, CommonTypeOK, DeviceMaps, PurseTypeOK,
         RecoveryTypeOK, NameTypeOK, AssetTypeOK, SlashingTypeOK,
         identityVars, nomadVars, guardianVars, bookVars,
         purseVars, nameVars, slashingVars, historyVars

LEMMA AssetBurnType ==
    ASSUME TypeOK, NEW b \in Presentable, NEW x \in AssetIds, NEW n \in Sums,
           AssetBurn(b, x, n)
    PROVE  TypeOK'
<1>1. /\ Is(b, "AssetBurn", 0) /\ n \in Nat /\ x \in Assets
      /\ devices \in DeviceMaps /\ b.account \in Accounts
  BY SumsAreNat, BodyType DEF AssetBurn, TypeOK, DeviceMaps, Assets
<1>2. AfterFee(b) \in Funds
  BY <1>1, AfterFeeType DEF Is
<1>3. Debit(AfterFee(b), b.account, x, n) \in Funds
  BY <1>1, <1>2, DebitType DEF AssetBurn
<1>4. CommonTypeOK'
  BY <1>1, <1>3, CommonType DEF AssetBurn, NonceOnly
<1>5. /\ assets[x] \in AssetRecord
      /\ n <= assets[x].supply
  BY DEF AssetBurn, RecordBurn, Exists, TypeOK, AssetTypeOK
<1>6. [assets[x] EXCEPT !.supply = @ - n] \in AssetRecord
  BY <1>1, <1>5, WidthAssumption DEF AssetRecord, Amount
<1>7. AssetTypeOK'
  BY <1>6 DEF AssetBurn, RecordBurn, TypeOK, AssetTypeOK
<1> QED
  BY <1>4, <1>7
     DEF AssetBurn, TypeOK, CommonTypeOK, DeviceMaps, PurseTypeOK,
         RecoveryTypeOK, NameTypeOK, AssetTypeOK, SlashingTypeOK,
         identityVars, nomadVars, guardianVars, bookVars,
         purseVars, nameVars, slashingVars, historyVars

LEMMA NameCommitType ==
    ASSUME TypeOK, NEW b \in Presentable, NEW d \in Digest, NameCommit(b, d)
    PROVE  TypeOK'
<1>1. CommonTypeOK'
  BY FeeOnlyType DEF NameCommit
<1>2. [account |-> b.account, committedAt |-> ctx.finalized] \in Commitment
  BY BodyType DEF TypeOK, Context, Commitment
<1>3. NameTypeOK'
  BY <1>2 DEF NameCommit, Commit, TypeOK, NameTypeOK
<1> QED
  BY <1>1, <1>3
     DEF NameCommit, TypeOK, CommonTypeOK, DeviceMaps, PurseTypeOK,
         RecoveryTypeOK, NameTypeOK, AssetTypeOK, SlashingTypeOK,
         identityVars, nomadVars, guardianVars, bookVars,
         purseVars, nameVars, slashingVars, historyVars

LEMMA NameRevealType ==
    ASSUME TypeOK, NEW b \in Presentable, NEW n \in Names, NEW s \in Salts,
           NameReveal(b, n, s)
    PROVE  TypeOK'
<1>1. CommonTypeOK'
  BY FeeOnlyType DEF NameReveal
<1>2. NameTypeOK'
  BY BodyType DEF NameReveal, Reveal, TypeOK, NameTypeOK
<1> QED
  BY <1>1, <1>2
     DEF NameReveal, TypeOK, CommonTypeOK, DeviceMaps, PurseTypeOK,
         RecoveryTypeOK, NameTypeOK, AssetTypeOK, SlashingTypeOK,
         identityVars, nomadVars, guardianVars, bookVars,
         purseVars, nameVars, slashingVars, historyVars

----------------------------------------------------------------------------
(* Blocks. *)

LEMMA BeginBlockType ==
    ASSUME TypeOK, NEW c \in Context, BeginBlock(c)
    PROVE  TypeOK'
<1>1. /\ balance' = Credited(c.finalized)
      /\ \A a \in Accounts, x \in Assets : balance'[a][x] \in Amount
  BY DEF BeginBlock
<1>2. balance' \in [Accounts -> [Assets -> Amount]]
  BY <1>1 DEF Credited
<1>3. PurseTypeOK'
  BY PurseAssumption
     DEF BeginBlock, SettleElapsed, TypeOK, PurseTypeOK, Tranches
<1>4. NameTypeOK'
  BY DEF BeginBlock, PruneExpired, TypeOK, NameTypeOK
<1>5. atOutage' \in [Accounts -> Amount]
  BY <1>2, AmountsAreNat, WidthAssumption DEF BeginBlock, TypeOK, Amount
<1>6. ctx' \in Context
  BY DEF BeginBlock
<1> QED
  BY <1>2, <1>3, <1>4, <1>5, <1>6
     DEF BeginBlock, TypeOK, CommonTypeOK, DeviceMaps, PurseTypeOK,
         RecoveryTypeOK, NameTypeOK, AssetTypeOK, SlashingTypeOK,
         identityVars, nomadVars, guardianVars, bookVars,
         purseVars, nameVars, slashingVars, historyVars

LEMMA SettleNomadCountersType ==
    ASSUME TypeOK, SettleNomadCounters
    PROVE  TypeOK'
<1>1. \A device \in Device : [device EXCEPT !.spent = 0] \in Device
  BY WidthAssumption DEF Device, Amount
<1>2. devices' \in DeviceMaps
  BY <1>1
     DEF SettleNomadCounters, IsRegistered, TypeOK, DeviceMaps
<1> QED
  BY <1>2
     DEF SettleNomadCounters, feeVars, TypeOK, CommonTypeOK, DeviceMaps, PurseTypeOK,
         RecoveryTypeOK, NameTypeOK, AssetTypeOK, SlashingTypeOK,
         identityVars, nomadVars, guardianVars, bookVars,
         purseVars, nameVars, slashingVars, historyVars

----------------------------------------------------------------------------
(* The theorem. *)

LEMMA InitType == LedgerInit => TypeOK
<1> SUFFICES ASSUME LedgerInit PROVE TypeOK
  OBVIOUS
<1>1. 0 \in Amount /\ 0 \in Lane /\ 1 \in Lane /\ 0 \in Sequence
      /\ 0 \in Tranches
  BY WidthAssumption, NonceAssumption, GenesisAssumption, PurseAssumption
     DEF Amount, Lane, Sequence, Tranches
<1>2. ctx \in Context
  BY DEF LedgerInit
<1>3. /\ balance \in [Accounts -> [Assets -> Amount]]
      /\ bonded \in [Accounts -> Amount]
      /\ nomadCredit \in [Accounts -> Amount]
      /\ nomadMargin \in [Accounts -> Amount]
      /\ burned \in Amount /\ contextPot \in Amount /\ feesCollected \in Amount
      /\ atOutage \in [Accounts -> Amount] /\ seizedMargin \in Nat
  BY <1>1, GenesisAssumption DEF LedgerInit
<1>4. [lane |-> 0, share |-> GenesisCredit, spent |-> 0] \in Device
  BY <1>1, GenesisAssumption DEF Device
<1>5. devices \in [Accounts -> [Keys -> Device \cup {None}]]
  BY <1>4 DEF LedgerInit
<1>6. /\ revoked \in [Accounts -> SUBSET Keys]
      /\ nextLane \in [Accounts -> Lane]
      /\ lanes \in [Accounts -> [Lane -> Sequence]]
  BY <1>1 DEF LedgerInit
<1>7. /\ guardians \in [Accounts -> SUBSET Accounts]
      /\ threshold \in [Accounts -> Nat]
  BY GenesisAssumption DEF LedgerInit
<1>8. laneHolders \subseteq Accounts \X Lane \X Keys
  BY <1>1, GenesisAssumption DEF LedgerInit
<1>9. /\ PurseTypeOK /\ RecoveryTypeOK /\ NameTypeOK /\ AssetTypeOK
      /\ SlashingTypeOK
  BY <1>1
     DEF LedgerInit, PurseInit, RecoveryInit, NameInit, AssetInit,
         SlashingInit, PurseTypeOK, RecoveryTypeOK, NameTypeOK, AssetTypeOK,
         SlashingTypeOK
<1> QED
  BY <1>2, <1>3, <1>5, <1>6, <1>7, <1>8, <1>9 DEF TypeOK

\* Every transaction kind keeps the types.
LEMMA TransactionType ==
    ASSUME TypeOK, NEW b \in Presentable,
           \/ MoneyKind(b) \/ IdentityKind(b) \/ EvidenceKind(b)
           \/ ChannelKind(b) \/ RegistryKind(b)
    PROVE  TypeOK'
<1>1. CASE MoneyKind(b)
  BY <1>1, TransferType, BondType, UnbondType, NomadSetType DEF MoneyKind
<1>2. CASE IdentityKind(b)
  BY <1>2, DeviceAddType, DeviceRevokeType, GuardianSetType,
     RecoveryStartType, RecoveryCancelType, RecoveryFinaliseType
     DEF IdentityKind
<1>3. CASE EvidenceKind(b)
  BY <1>3, AccountEquivocationType, ValidatorEquivocationType
     DEF EvidenceKind
<1>4. CASE ChannelKind(b)
  BY <1>4, PurseOpenType, PurseCloseCooperativeType,
     PurseCloseUnilateralType, PurseDisputeType DEF ChannelKind
<1>5. CASE RegistryKind(b)
  BY <1>5, AssetCreateType, AssetMintType, AssetBurnType, NameCommitType,
     NameRevealType DEF RegistryKind
<1> QED
  BY <1>1, <1>2, <1>3, <1>4, <1>5

LEMMA StutterType == ASSUME TypeOK, UNCHANGED vars PROVE TypeOK'
BY DEF vars, feeVars, TypeOK, CommonTypeOK, DeviceMaps, PurseTypeOK,
         RecoveryTypeOK, NameTypeOK, AssetTypeOK, SlashingTypeOK,
         identityVars, nomadVars, guardianVars, bookVars,
         purseVars, nameVars, slashingVars, historyVars

(* No amount, lane, sequence or tranche count ever leaves its range: the   *)
(* checks before and inside every kind's handler are enough to keep the    *)
(* arithmetic of the whole ledger from overflowing or going negative.      *)
THEOREM TypeCorrect == Spec => []TypeOK
<1>1. TypeOK /\ [Next]_vars => TypeOK'
  <2> SUFFICES ASSUME TypeOK, [Next]_vars PROVE TypeOK'
    OBVIOUS
  <2>1. ASSUME NEW c \in Context, BeginBlock(c) PROVE TypeOK'
    BY <2>1, BeginBlockType
  <2>2. CASE SettleNomadCounters
    BY <2>2, SettleNomadCountersType
  <2>3. ASSUME NEW p \in PurseIds, NEW n \in Tranches, Spend(p, n)
        PROVE  TypeOK'
    BY <2>3, SpendType
  <2>4. ASSUME NEW b \in Presentable,
               \/ MoneyKind(b) \/ IdentityKind(b) \/ EvidenceKind(b)
               \/ ChannelKind(b) \/ RegistryKind(b)
        PROVE  TypeOK'
    BY <2>4, TransactionType
  <2>5. CASE UNCHANGED vars
    BY <2>5, StutterType
  <2> QED
    BY <2>1, <2>2, <2>3, <2>4, <2>5 DEF Next
<1> QED
  BY <1>1, InitType, PTL DEF Spec

----------------------------------------------------------------------------
(* Footprints: the variables that a group of kinds leaves as they are. *)

LEMMA MoneyFootprint ==
    ASSUME NEW b \in Presentable, MoneyKind(b)
    PROVE  UNCHANGED <<ctx, identityVars, guardianVars, bookVars, historyVars>>
BY DEF MoneyKind, Transfer, Bond, Unbond, NomadSet

LEMMA IdentityFootprint ==
    ASSUME NEW b \in Presentable, IdentityKind(b)
    PROVE  UNCHANGED <<ctx, purseVars, nameVars, assets, slashingVars,
                       historyVars>>
BY DEF IdentityKind, DeviceAdd, DeviceRevoke, GuardianSet, RecoveryStart,
       RecoveryCancel, RecoveryFinalise, bookVars

LEMMA EvidenceFootprint ==
    ASSUME NEW b \in Presentable, EvidenceKind(b)
    PROVE  UNCHANGED <<ctx, identityVars, guardianVars, purseVars, recoveries,
                       nameVars, assets>>
BY DEF EvidenceKind, AccountEquivocation, ValidatorEquivocation

LEMMA ChannelFootprint ==
    ASSUME NEW b \in Presentable, ChannelKind(b)
    PROVE  UNCHANGED <<ctx, identityVars, guardianVars, recoveries, nameVars,
                       assets, slashingVars, historyVars>>
BY DEF ChannelKind, PurseOpen, PurseCloseCooperative, PurseCloseUnilateral,
       PurseDispute

LEMMA RegistryFootprint ==
    ASSUME NEW b \in Presentable, RegistryKind(b)
    PROVE  UNCHANGED <<ctx, identityVars, guardianVars, purseVars, recoveries,
                       slashingVars, historyVars>>
BY DEF RegistryKind, AssetCreate, AssetMint, AssetBurn, NameCommit, NameReveal

\* Blocks, the reset of the counters and hand-overs, by what they leave.
LEMMA BlockFootprint ==
    ASSUME NEW c, BeginBlock(c)
    PROVE  UNCHANGED <<devices, identityVars, lanes, guardianVars, recoveries,
                       owners, assets, slashingVars, seizedMargin>>
BY DEF BeginBlock, PruneExpired

LEMMA SettleFootprint ==
    ASSUME SettleNomadCounters
    PROVE  UNCHANGED <<ctx, identityVars, lanes, guardianVars, bookVars,
                       historyVars>>
BY DEF SettleNomadCounters

LEMMA SpendFootprint ==
    ASSUME NEW p, NEW n, Spend(p, n)
    PROVE  UNCHANGED <<ctx, devices, identityVars, lanes, guardianVars,
                       purses, recoveries, nameVars, assets, slashingVars,
                       historyVars>>
BY DEF Spend, HandOverToken

\* A transaction that is not about devices ends by consuming its nonce, and
\* registers no device.
LEMMA OtherKindsConsume ==
    ASSUME NEW b \in Presentable,
           MoneyKind(b) \/ EvidenceKind(b) \/ ChannelKind(b) \/ RegistryKind(b)
    PROVE  \E native \in Nat, kind \in AllKinds :
              Admits(b, kind, native) /\ Consume(b, devices, native)
<1>1. CASE MoneyKind(b)
  BY <1>1, SumsAreNat, NativeType
     DEF MoneyKind, Transfer, Bond, Unbond, NomadSet, Is, NonceOnly, AllKinds
<1>2. CASE EvidenceKind(b)
  BY <1>2
     DEF EvidenceKind, AccountEquivocation, ValidatorEquivocation, Is,
         NonceOnly, AllKinds
<1>3. CASE ChannelKind(b)
  BY <1>3, SumsAreNat, NativeType
     DEF ChannelKind, PurseOpen, PurseCloseCooperative, PurseCloseUnilateral,
         PurseDispute, Is, NonceOnly, AllKinds
<1>4. CASE RegistryKind(b)
  BY <1>4
     DEF RegistryKind, AssetCreate, AssetMint, AssetBurn, NameCommit,
         NameReveal, Is, NonceOnly, AllKinds
<1> QED
  BY <1>1, <1>2, <1>3, <1>4

----------------------------------------------------------------------------
(* Devices. *)

\* The step leaves every device of a map where it is, on the lane it has and
\* with the share it has, and lets it spend no more than that.
Keeps(registered) ==
    \A a \in Accounts, d \in Keys :
        /\ devices'[a][d] = None <=> registered[a][d] = None
        /\ devices'[a][d] # None =>
             /\ devices'[a][d].lane = registered[a][d].lane
             /\ devices'[a][d].share = registered[a][d].share
             /\ registered[a][d].spent <= registered[a][d].share =>
                  devices'[a][d].spent <= devices'[a][d].share

\* What a transaction may make of the registered devices: nothing, one less,
\* one more on a fresh lane, or one only, on the next lane.
Registers(registered) ==
    \/ registered = devices /\ UNCHANGED <<nextLane, laneHolders>>
    \/ \E a \in Accounts, d \in Keys :
        /\ registered = [devices EXCEPT ![a][d] = None]
        /\ UNCHANGED <<nextLane, laneHolders>>
    \/ \E a \in Accounts, d \in Keys, l \in Lane, n \in Amount :
        /\ registered = [devices EXCEPT ![a][d] =
                           [lane |-> l, share |-> n, spent |-> 0]]
        /\ l >= nextLane[a]
        /\ Install(a, d, l)
    \/ \E a \in Accounts, d \in Keys :
        /\ registered = [devices EXCEPT ![a] =
              [e \in Keys |->
                 IF e = d THEN [lane |-> nextLane[a], share |-> 0, spent |-> 0]
                 ELSE None]]
        /\ Install(a, d, nextLane[a])

\* Consuming a nonce keeps the devices.
LEMMA ConsumeKeepsDevices ==
    ASSUME TypeOK, NEW b \in Presentable, NEW kind, NEW native \in Nat,
           Admits(b, kind, native), NEW registered \in DeviceMaps,
           InPartition => registered = devices,
           Consume(b, registered, native)
    PROVE  Keeps(registered)
<1>1. /\ b.account \in Accounts /\ b.device \in Keys
      /\ Outflow(b, native) \in Nat
  BY BodyType DEF Outflow
<1>2. CASE InPartition /\ registered[b.account][b.device] # None
  <2> DEFINE device == registered[b.account][b.device]
             metered == [device EXCEPT !.spent = @ + Outflow(b, native)]
  <2>1. device \in Device
    BY <1>1, <1>2 DEF DeviceMaps
  <2>2. Outflow(b, native) <= Remaining(device)
    BY <1>2 DEF Admits, NomadAllows
  <2>3. /\ metered \in Device /\ metered # None
        /\ metered.lane = device.lane /\ metered.share = device.share
        /\ device.spent <= device.share => metered.spent <= metered.share
    BY <1>1, <2>1, <2>2, SpentStaysAmount, NoneIsNothing, AmountsAreNat
       DEF Device, Remaining
  <2>4. devices' = [registered EXCEPT ![b.account][b.device] = metered]
    BY <1>2 DEF Consume
  <2> HIDE DEF metered
  <2>5. /\ devices'[b.account][b.device] = metered
        /\ \A a \in Accounts, d \in Keys :
              <<a, d>> # <<b.account, b.device>> =>
                 devices'[a][d] = registered[a][d]
    BY <1>1, <2>4 DEF DeviceMaps
  <2> QED
    BY <1>2, <2>3, <2>5 DEF Keeps
<1>3. CASE ~(InPartition /\ registered[b.account][b.device] # None)
  BY <1>3 DEF Consume, Keeps
<1> QED
  BY <1>2, <1>3

\* So does a transaction that is not about devices, and one of a kind that
\* leaves the chain no choice but to be finalising.
LEMMA OtherKindsKeepDevices ==
    ASSUME TypeOK, NEW b \in Presentable,
           MoneyKind(b) \/ EvidenceKind(b) \/ ChannelKind(b) \/ RegistryKind(b)
    PROVE  Keeps(devices)
<1>1. devices \in DeviceMaps
  BY DEF TypeOK, DeviceMaps
<1> QED
  BY <1>1, OtherKindsConsume, ConsumeKeepsDevices

LEMMA OnChainKeepsDevices ==
    ASSUME TypeOK, NEW b \in Presentable, NEW kind, Is(b, kind, 0),
           kind \notin AllowedInProvisional,
           NEW registered \in DeviceMaps, Consume(b, registered, 0)
    PROVE  Keeps(registered)
BY OnlyOnChain, ConsumeKeepsDevices DEF Is

LEMMA DeviceAddRegisters ==
    ASSUME TypeOK, NEW b \in Presentable, NEW d \in Keys, NEW l \in Lane,
           NEW n \in Sums, DeviceAdd(b, d, l, n)
    PROVE  \E registered \in DeviceMaps : Keeps(registered) /\ Registers(registered)
<1> DEFINE registered == [devices EXCEPT ![b.account][d] =
                            [lane |-> l, share |-> n, spent |-> 0]]
<1>1. n \in Amount /\ b.account \in Accounts /\ 0 \in Amount
  BY InputAssumption, WidthAssumption, BodyType DEF Amount
<1>2. [lane |-> l, share |-> n, spent |-> 0] \in Device
  BY <1>1 DEF Device
<1>3. registered \in DeviceMaps
  BY <1>1, <1>2 DEF TypeOK, DeviceMaps
<1>4. Is(b, "DeviceAdd", 0) /\ Consume(b, registered, 0)
  BY DEF DeviceAdd
<1>5. Keeps(registered)
  BY <1>3, <1>4, OnChainKeepsDevices DEF AllowedInProvisional
<1>6. l >= nextLane[b.account] /\ Install(b.account, d, l)
  BY DEF DeviceAdd, LaneIsFree
<1>7. Registers(registered)
  BY <1>1, <1>6 DEF Registers
<1> QED
  BY <1>3, <1>5, <1>7

LEMMA DeviceRevokeRegisters ==
    ASSUME TypeOK, NEW b \in Presentable, NEW d \in Keys, DeviceRevoke(b, d)
    PROVE  \E registered \in DeviceMaps : Keeps(registered) /\ Registers(registered)
<1> DEFINE registered == [devices EXCEPT ![b.account][d] = None]
<1>1. registered \in DeviceMaps /\ b.account \in Accounts
  BY BodyType DEF TypeOK, DeviceMaps
<1>2. Is(b, "DeviceRevoke", 0) /\ Consume(b, registered, 0)
  BY DEF DeviceRevoke
<1>3. Keeps(registered)
  BY <1>1, <1>2, OnChainKeepsDevices DEF AllowedInProvisional
<1>4. Registers(registered)
  BY <1>1 DEF DeviceRevoke, Registers
<1> QED
  BY <1>1, <1>3, <1>4

LEMMA RecoveryFinaliseRegisters ==
    ASSUME TypeOK, NEW b \in Presentable, NEW a \in Accounts,
           RecoveryFinalise(b, a)
    PROVE  \E registered \in DeviceMaps : Keeps(registered) /\ Registers(registered)
<1> DEFINE d == recoveries[a].newKey
           device == [lane |-> nextLane[a], share |-> 0, spent |-> 0]
           registered == [devices EXCEPT ![a] =
                            [e \in Keys |-> IF e = d THEN device ELSE None]]
<1>1. d \in Keys
  BY DEF RecoveryFinalise, Finalise, IsRecovering, TypeOK, RecoveryTypeOK,
         Pending
<1>2. device \in Device
  BY WidthAssumption DEF TypeOK, Device, Amount
<1>3. registered \in DeviceMaps
  BY <1>2 DEF TypeOK, DeviceMaps
<1>4. Is(b, "RecoveryFinalise", 0) /\ Consume(b, registered, 0)
  BY DEF RecoveryFinalise
<1>5. Keeps(registered)
  BY <1>3, <1>4, OnChainKeepsDevices DEF AllowedInProvisional
<1>6. Install(a, d, nextLane[a])
  BY DEF RecoveryFinalise
<1>7. Registers(registered)
  BY <1>1, <1>6 DEF Registers
<1> QED
  BY <1>3, <1>5, <1>7

\* The three other identity kinds leave the devices alone.
LEMMA GuardianKindsRegister ==
    ASSUME TypeOK, NEW b \in Presentable,
           \/ \E s \in GuardianChoices, q \in ThresholdChoices :
                GuardianSet(b, s, q)
           \/ \E a \in Accounts, d \in Keys : RecoveryStart(b, a, d)
           \/ \E a \in Accounts : RecoveryCancel(b, a)
    PROVE  \E registered \in DeviceMaps : Keeps(registered) /\ Registers(registered)
<1>1. devices \in DeviceMaps
  BY DEF TypeOK, DeviceMaps
<1>2. \E kind : /\ Is(b, kind, 0) /\ kind \notin AllowedInProvisional
                /\ Consume(b, devices, 0)
  BY DEF GuardianSet, RecoveryStart, RecoveryCancel, NonceOnly,
         AllowedInProvisional
<1>3. Keeps(devices)
  BY <1>1, <1>2, OnChainKeepsDevices
<1>4. Registers(devices)
  BY DEF GuardianSet, RecoveryStart, RecoveryCancel, identityVars, Registers
<1> QED
  BY <1>1, <1>3, <1>4

LEMMA IdentityKindsRegister ==
    ASSUME TypeOK, NEW b \in Presentable, IdentityKind(b)
    PROVE  \E registered \in DeviceMaps : Keeps(registered) /\ Registers(registered)
BY DeviceAddRegisters, DeviceRevokeRegisters, RecoveryFinaliseRegisters,
   GuardianKindsRegister DEF IdentityKind

----------------------------------------------------------------------------
(* Lanes.  Uniqueness alone is not inductive: a step that installs a       *)
(* device must know that nobody has held its lane, and it looks only at    *)
(* the high-water mark.  So: every lane ever held is below the mark.       *)

MarkAboveHolders == \A u \in laneHolders : u[2] < nextLane[u[1]]

LaneInv == LaneHeldByOneDevice /\ MarkAboveHolders

LEMMA LaneInit == LedgerInit => LaneInv
<1> SUFFICES ASSUME LedgerInit PROVE LaneInv
  OBVIOUS
<1>1. MarkAboveHolders
  BY DEF LedgerInit, MarkAboveHolders
<1>2. \A u, v \in laneHolders : u[1] = v[1] /\ u[2] = v[2] => u[3] = v[3]
  BY DEF LedgerInit
<1>3. ASSUME NEW a \in Accounts, NEW d \in Registered(a)
      PROVE  <<a, devices[a][d].lane, d>> \in laneHolders
  <2>1. d = GenesisKey[a] /\ d \in Keys /\ devices[a][d].lane = 0
    BY <1>3 DEF LedgerInit, Registered, IsRegistered
  <2>2. GenesisKey[a] # None
    BY <2>1, NoneIsNothing
  <2> QED
    BY <2>1, <2>2 DEF LedgerInit
<1> QED
  BY <1>1, <1>2, <1>3 DEF LaneInv, LaneHeldByOneDevice

\* A device put on lane l, at or past the mark, is its first holder.
LEMMA InstallKeepsLanes ==
    ASSUME TypeOK, LaneInv, NEW a \in Accounts, NEW d \in Keys, NEW l \in Lane,
           l >= nextLane[a], Install(a, d, l)
    PROVE  /\ MarkAboveHolders'
           /\ \A u, v \in laneHolders' :
                u[1] = v[1] /\ u[2] = v[2] => u[3] = v[3]
           /\ <<a, l, d>> \in laneHolders'
           /\ laneHolders \subseteq laneHolders'
<1>1. laneHolders' = laneHolders \cup {<<a, l, d>>}
  BY DEF Install
<1>2. \A u \in laneHolders : /\ u[1] \in Accounts /\ u[2] \in Int
                             /\ nextLane[u[1]] \in Int
  BY NonceAssumption DEF TypeOK, Lane
<1>3. l \in Int /\ nextLane[a] \in Int
  BY NonceAssumption DEF TypeOK, Lane
<1>4. /\ nextLane'[a] = l + 1
      /\ \A c \in Accounts : c # a => nextLane'[c] = nextLane[c]
  BY DEF Install, TypeOK
<1>5. MarkAboveHolders'
  <2> SUFFICES ASSUME NEW u \in laneHolders' PROVE u[2] < nextLane'[u[1]]
    BY DEF MarkAboveHolders
  <2>1. CASE u \in laneHolders
    BY <1>2, <1>3, <1>4, <2>1 DEF LaneInv, MarkAboveHolders
  <2>2. CASE u = <<a, l, d>>
    BY <1>3, <1>4, <2>2
  <2> QED
    BY <1>1, <2>1, <2>2
<1>6. \A u \in laneHolders : ~(u[1] = a /\ u[2] = l)
  BY <1>2, <1>3 DEF LaneInv, MarkAboveHolders
<1>7. \A u, v \in laneHolders' : u[1] = v[1] /\ u[2] = v[2] => u[3] = v[3]
  <2> SUFFICES ASSUME NEW u \in laneHolders', NEW v \in laneHolders',
                      u[1] = v[1], u[2] = v[2]
               PROVE  u[3] = v[3]
    OBVIOUS
  <2>1. CASE u \in laneHolders /\ v \in laneHolders
    BY <2>1 DEF LaneInv, LaneHeldByOneDevice
  <2>2. CASE u = <<a, l, d>> /\ v = <<a, l, d>>
    BY <2>2
  <2> QED
    BY <1>1, <1>6, <2>1, <2>2
<1> QED
  BY <1>1, <1>5, <1>7

\* If the devices that are kept are on lanes they hold, so are they after.
LEMMA KeepsLanes ==
    ASSUME NEW registered \in DeviceMaps, Keeps(registered),
           \A a \in Accounts, d \in Keys : registered[a][d] # None =>
              <<a, registered[a][d].lane, d>> \in laneHolders'
    PROVE  \A a \in Accounts : \A d \in Registered(a)' :
              <<a, devices'[a][d].lane, d>> \in laneHolders'
BY DEF Keeps, Registered, IsRegistered

LEMMA RegistersKeepsLanes ==
    ASSUME TypeOK, LaneInv, NEW registered \in DeviceMaps,
           Keeps(registered), Registers(registered)
    PROVE  LaneInv'
<1>1. \A a \in Accounts, d \in Keys : devices[a][d] # None =>
         <<a, devices[a][d].lane, d>> \in laneHolders
  BY DEF LaneInv, LaneHeldByOneDevice, Registered, IsRegistered
<1>2. devices \in DeviceMaps
  BY DEF TypeOK, DeviceMaps
<1>3. CASE registered = devices /\ UNCHANGED <<nextLane, laneHolders>>
  BY <1>1, <1>3, KeepsLanes
     DEF LaneInv, LaneHeldByOneDevice, MarkAboveHolders
<1>4. ASSUME NEW a \in Accounts, NEW d \in Keys,
             registered = [devices EXCEPT ![a][d] = None],
             UNCHANGED <<nextLane, laneHolders>>
      PROVE  LaneInv'
  <2>1. \A c \in Accounts, e \in Keys : registered[c][e] # None =>
           registered[c][e] = devices[c][e]
    BY <1>2, <1>4 DEF DeviceMaps
  <2>2. \A c \in Accounts, e \in Keys : registered[c][e] # None =>
           <<c, registered[c][e].lane, e>> \in laneHolders'
    BY <1>1, <1>4, <2>1
  <2>3. \A c \in Accounts : \A e \in Registered(c)' :
           <<c, devices'[c][e].lane, e>> \in laneHolders'
    BY <2>2, KeepsLanes
  <2> QED
    BY <1>4, <2>3 DEF LaneInv, LaneHeldByOneDevice, MarkAboveHolders
<1>5. ASSUME NEW a \in Accounts, NEW d \in Keys, NEW l \in Lane,
             NEW n \in Amount,
             registered = [devices EXCEPT ![a][d] =
                             [lane |-> l, share |-> n, spent |-> 0]],
             l >= nextLane[a], Install(a, d, l)
      PROVE  LaneInv'
  <2>1. \A c \in Accounts, e \in Keys :
           \/ c = a /\ e = d /\ registered[c][e].lane = l
           \/ registered[c][e] = devices[c][e]
    BY <1>2, <1>5 DEF DeviceMaps
  <2>2. /\ MarkAboveHolders'
        /\ \A u, v \in laneHolders' :
             u[1] = v[1] /\ u[2] = v[2] => u[3] = v[3]
        /\ <<a, l, d>> \in laneHolders'
        /\ laneHolders \subseteq laneHolders'
    BY <1>5, InstallKeepsLanes
  <2>3. \A c \in Accounts, e \in Keys : registered[c][e] # None =>
           <<c, registered[c][e].lane, e>> \in laneHolders'
    BY <1>1, <2>1, <2>2
  <2>4. \A c \in Accounts : \A e \in Registered(c)' :
           <<c, devices'[c][e].lane, e>> \in laneHolders'
    BY <2>3, KeepsLanes
  <2> QED
    BY <2>2, <2>4 DEF LaneInv, LaneHeldByOneDevice
<1>6. ASSUME NEW a \in Accounts, NEW d \in Keys,
             registered = [devices EXCEPT ![a] =
                [e \in Keys |->
                   IF e = d
                   THEN [lane |-> nextLane[a], share |-> 0, spent |-> 0]
                   ELSE None]],
             Install(a, d, nextLane[a])
      PROVE  LaneInv'
  <2>1. \A c \in Accounts, e \in Keys :
           \/ c = a /\ e = d /\ registered[c][e].lane = nextLane[a]
           \/ registered[c][e] = None
           \/ registered[c][e] = devices[c][e]
    BY <1>2, <1>6 DEF DeviceMaps
  <2>2. nextLane[a] \in Lane /\ nextLane[a] >= nextLane[a]
    BY NonceAssumption DEF TypeOK, Lane
  <2>3. /\ MarkAboveHolders'
        /\ \A u, v \in laneHolders' :
             u[1] = v[1] /\ u[2] = v[2] => u[3] = v[3]
        /\ <<a, nextLane[a], d>> \in laneHolders'
        /\ laneHolders \subseteq laneHolders'
    BY <1>6, <2>2, InstallKeepsLanes
  <2>4. \A c \in Accounts, e \in Keys : registered[c][e] # None =>
           <<c, registered[c][e].lane, e>> \in laneHolders'
    BY <1>1, <2>1, <2>3
  <2>5. \A c \in Accounts : \A e \in Registered(c)' :
           <<c, devices'[c][e].lane, e>> \in laneHolders'
    BY <2>4, KeepsLanes
  <2> QED
    BY <2>3, <2>5 DEF LaneInv, LaneHeldByOneDevice
<1> QED
  BY <1>3, <1>4, <1>5, <1>6 DEF Registers

\* Resetting the counters does not move a device.
LEMMA SettleKeepsDevice ==
    ASSUME TypeOK, SettleNomadCounters, NEW a \in Accounts, NEW d \in Keys
    PROVE  /\ devices'[a][d] = None <=> devices[a][d] = None
           /\ devices'[a][d] # None =>
                /\ devices'[a][d].lane = devices[a][d].lane
                /\ devices'[a][d].spent = 0
                /\ devices'[a][d].share = devices[a][d].share
                /\ devices'[a][d].share \in Nat
<1>1. devices'[a][d] = IF IsRegistered(a, d)
                       THEN [devices[a][d] EXCEPT !.spent = 0] ELSE None
  BY DEF SettleNomadCounters
<1>2. CASE IsRegistered(a, d)
  <2>1. devices[a][d] \in Device
    BY <1>2 DEF TypeOK, IsRegistered
  <2>2. /\ [devices[a][d] EXCEPT !.spent = 0] \in Device
        /\ [devices[a][d] EXCEPT !.spent = 0].lane = devices[a][d].lane
        /\ [devices[a][d] EXCEPT !.spent = 0].spent = 0
        /\ devices[a][d].share \in Nat
        /\ [devices[a][d] EXCEPT !.spent = 0].share = devices[a][d].share
    BY <2>1, WidthAssumption DEF Device, Amount
  <2> QED
    BY <1>1, <1>2, <2>2, NoneIsNothing DEF IsRegistered
<1>3. CASE ~IsRegistered(a, d)
  BY <1>1, <1>3 DEF IsRegistered
<1> QED
  BY <1>2, <1>3

LEMMA LaneStep ==
    ASSUME TypeOK, LaneInv, [Next]_vars
    PROVE  LaneInv'
<1>0. devices \in DeviceMaps
  BY DEF TypeOK, DeviceMaps
<1>1. ASSUME NEW c \in Context, BeginBlock(c) PROVE LaneInv'
  BY <1>1, BlockFootprint
     DEF identityVars, LaneInv, LaneHeldByOneDevice, MarkAboveHolders,
         Registered, IsRegistered
<1>2. CASE SettleNomadCounters
  <2>1. UNCHANGED <<nextLane, laneHolders>>
    BY <1>2, SettleFootprint DEF identityVars
  <2>2. ASSUME NEW a \in Accounts, NEW d \in Keys
        PROVE  /\ devices'[a][d] = None <=> devices[a][d] = None
               /\ devices'[a][d] # None =>
                    devices'[a][d].lane = devices[a][d].lane
    BY SettleKeepsDevice, <1>2
  <2> QED
    BY <2>1, <2>2
       DEF LaneInv, LaneHeldByOneDevice, MarkAboveHolders, Registered,
           IsRegistered
<1>3. ASSUME NEW p \in PurseIds, NEW n \in Tranches, Spend(p, n)
      PROVE  LaneInv'
  BY <1>3, SpendFootprint
     DEF identityVars, LaneInv, LaneHeldByOneDevice, MarkAboveHolders,
         Registered, IsRegistered
<1>4. ASSUME NEW b \in Presentable, IdentityKind(b) PROVE LaneInv'
  BY <1>4, IdentityKindsRegister, RegistersKeepsLanes
<1>5. ASSUME NEW b \in Presentable,
             \/ MoneyKind(b) \/ EvidenceKind(b)
             \/ ChannelKind(b) \/ RegistryKind(b)
      PROVE  LaneInv'
  <2>1. UNCHANGED <<nextLane, laneHolders>>
    BY <1>5, MoneyFootprint, EvidenceFootprint, ChannelFootprint,
       RegistryFootprint DEF identityVars
  <2>2. Keeps(devices) /\ Registers(devices)
    BY <1>5, <2>1, OtherKindsKeepDevices DEF Registers
  <2> QED
    BY <1>0, <2>2, RegistersKeepsLanes
<1>6. CASE UNCHANGED vars
  BY <1>6
     DEF vars, identityVars, LaneInv, LaneHeldByOneDevice, MarkAboveHolders,
         Registered, IsRegistered
<1> QED
  BY <1>1, <1>2, <1>3, <1>4, <1>5, <1>6 DEF Next

(* A nonce lane belongs to one device for ever (device_add, device_revoke  *)
(* and recovery_finalise in any order), so no two signatures of honest     *)
(* devices ever share a slot.                                              *)
THEOREM LanesNeverShared == Spec => []LaneHeldByOneDevice
<1>1. LaneInv /\ TypeOK /\ [Next]_vars => LaneInv'
  BY LaneStep
<1>2. LaneInv => LaneHeldByOneDevice
  BY DEF LaneInv
<1> QED
  BY <1>1, <1>2, LaneInit, TypeCorrect, PTL DEF Spec

----------------------------------------------------------------------------
(* Offline shares. *)

LEMMA ShareInit == LedgerInit => SpentWithinShare
BY NoneIsNothing, GenesisAssumption, WidthAssumption
   DEF LedgerInit, SpentWithinShare, Registered, IsRegistered, Amount

\* A device that is kept, or registered with nothing spent, is within it.
LEMMA RegistersKeepsShares ==
    ASSUME TypeOK, SpentWithinShare, NEW registered \in DeviceMaps,
           Keeps(registered), Registers(registered)
    PROVE  SpentWithinShare'
<1>1. devices \in DeviceMaps
  BY DEF TypeOK, DeviceMaps
<1>2. \A a \in Accounts, d \in Keys : devices[a][d] # None =>
         devices[a][d].spent <= devices[a][d].share
  BY DEF SpentWithinShare, Registered, IsRegistered
<1>3. \A a \in Accounts, d \in Keys :
         \/ registered[a][d] = devices[a][d]
         \/ registered[a][d] = None
         \/ registered[a][d].spent = 0 /\ registered[a][d].share \in Nat
  <2>1. CASE registered = devices
    BY <2>1
  <2>2. CASE \E a \in Accounts, d \in Keys :
                registered = [devices EXCEPT ![a][d] = None]
    BY <1>1, <2>2 DEF DeviceMaps
  <2>3. ASSUME NEW a \in Accounts, NEW d \in Keys, NEW l \in Lane,
               NEW n \in Amount,
               registered = [devices EXCEPT ![a][d] =
                               [lane |-> l, share |-> n, spent |-> 0]]
        PROVE  \A c \in Accounts, e \in Keys :
                 \/ registered[c][e] = devices[c][e]
                 \/ registered[c][e].spent = 0 /\ registered[c][e].share \in Nat
    BY <1>1, <2>3, AmountsAreNat DEF DeviceMaps
  <2>4. ASSUME NEW a \in Accounts, NEW d \in Keys,
               registered = [devices EXCEPT ![a] =
                 [e \in Keys |->
                    IF e = d
                    THEN [lane |-> nextLane[a], share |-> 0, spent |-> 0]
                    ELSE None]]
        PROVE  \A c \in Accounts, e \in Keys :
                 \/ registered[c][e] = devices[c][e]
                 \/ registered[c][e] = None
                 \/ registered[c][e].spent = 0 /\ registered[c][e].share \in Nat
    BY <1>1, <2>4 DEF DeviceMaps
  <2> QED
    BY <2>1, <2>2, <2>3, <2>4 DEF Registers
<1>4. \A a \in Accounts, d \in Keys : registered[a][d] # None =>
         registered[a][d].spent <= registered[a][d].share
  BY <1>2, <1>3
<1> QED
  BY <1>4 DEF Keeps, SpentWithinShare, Registered, IsRegistered

LEMMA ShareStep ==
    ASSUME TypeOK, SpentWithinShare, [Next]_vars
    PROVE  SpentWithinShare'
<1>1. devices \in DeviceMaps
  BY DEF TypeOK, DeviceMaps
<1>2. CASE UNCHANGED devices
  BY <1>2 DEF SpentWithinShare, Registered, IsRegistered
<1>3. CASE SettleNomadCounters
  BY <1>3, SettleKeepsDevice
     DEF SpentWithinShare, Registered, IsRegistered
<1>4. ASSUME NEW b \in Presentable, IdentityKind(b) PROVE SpentWithinShare'
  BY <1>4, IdentityKindsRegister, RegistersKeepsShares
<1>5. ASSUME NEW b \in Presentable,
             \/ MoneyKind(b) \/ EvidenceKind(b)
             \/ ChannelKind(b) \/ RegistryKind(b)
      PROVE  SpentWithinShare'
  <2>1. UNCHANGED <<nextLane, laneHolders>>
    BY <1>5, MoneyFootprint, EvidenceFootprint, ChannelFootprint,
       RegistryFootprint DEF identityVars
  <2> QED
    BY <1>1, <1>5, <2>1, OtherKindsKeepDevices, RegistersKeepsShares
       DEF Registers
<1> QED
  BY <1>2, <1>3, <1>4, <1>5, BlockFootprint, SpendFootprint DEF Next, vars

(* No device spends more offline than the share it was given: check_nomad  *)
(* and the counter apply_in_place keeps agree, fees included.              *)
THEOREM SharesRespected == Spec => []SpentWithinShare
<1>1. TypeOK /\ SpentWithinShare /\ [Next]_vars => SpentWithinShare'
  BY ShareStep
<1> QED
  BY <1>1, ShareInit, TypeCorrect, PTL DEF Spec

----------------------------------------------------------------------------
(* Recoveries. *)

LEMMA RecoveryStep ==
    ASSUME TypeOK, Next
    PROVE  \/ UNCHANGED recoveries
           \/ \E a, g \in Accounts, d \in Keys :
                Approve(a, d, g, guardians[a], ctx.finalized)
           \/ \E a \in Accounts :
                Cancel(a) \/ Finalise(a, threshold[a], ctx.finalized)
<1>1. ASSUME NEW b \in Presentable, IdentityKind(b)
      PROVE  \/ UNCHANGED recoveries
             \/ \E a, g \in Accounts, d \in Keys :
                  Approve(a, d, g, guardians[a], ctx.finalized)
             \/ \E a \in Accounts :
                  Cancel(a) \/ Finalise(a, threshold[a], ctx.finalized)
  BY <1>1, BodyType
     DEF IdentityKind, DeviceAdd, DeviceRevoke, GuardianSet, RecoveryStart,
         RecoveryCancel, RecoveryFinalise, bookVars
<1>2. ASSUME NEW b \in Presentable,
             \/ MoneyKind(b) \/ EvidenceKind(b)
             \/ ChannelKind(b) \/ RegistryKind(b)
      PROVE  UNCHANGED recoveries
  BY <1>2, MoneyFootprint, EvidenceFootprint, ChannelFootprint,
     RegistryFootprint DEF bookVars
<1>3. CASE SettleNomadCounters
  BY <1>3, SettleFootprint DEF bookVars
<1> QED
  BY <1>1, <1>2, <1>3, BlockFootprint, SpendFootprint DEF Next

(* Once a guardian has opened a recovery its clock, its key and its        *)
(* approvals stand until it is cancelled or finalised.                     *)
THEOREM RecoveryClockStands == Spec => ClockNotRestarted
<1>1. TypeOK /\ [Next]_vars => [ClockKept]_recoveries
  <2> SUFFICES ASSUME TypeOK, Next PROVE ClockKept \/ UNCHANGED recoveries
    BY DEF vars, bookVars
  <2> SUFFICES ASSUME NEW a \in Accounts, IsRecovering(a),
                      recoveries'[a] # None, recoveries' # recoveries
               PROVE  /\ recoveries'[a].openedAt = recoveries[a].openedAt
                      /\ recoveries'[a].newKey = recoveries[a].newKey
                      /\ recoveries[a].approvals \subseteq recoveries'[a].approvals
    BY DEF ClockKept
  <2>1. recoveries[a] \in Pending
    BY DEF TypeOK, RecoveryTypeOK, IsRecovering
  <2>2. ASSUME NEW c \in Accounts, NEW g \in Accounts, NEW d \in Keys,
               Approve(c, d, g, guardians[c], ctx.finalized)
        PROVE  \/ recoveries'[a] = recoveries[a]
               \/ recoveries'[a] = [recoveries[a] EXCEPT !.approvals = @ \cup {g}]
    BY <2>2 DEF Approve, TypeOK, RecoveryTypeOK
  <2>3. ASSUME NEW c \in Accounts,
               Cancel(c) \/ Finalise(c, threshold[c], ctx.finalized)
        PROVE  recoveries'[a] = recoveries[a]
    BY <2>3 DEF Cancel, Finalise, TypeOK, RecoveryTypeOK
  <2>4. \/ recoveries'[a] = recoveries[a]
        \/ \E g \in Accounts :
             recoveries'[a] = [recoveries[a] EXCEPT !.approvals = @ \cup {g}]
    BY <2>2, <2>3, RecoveryStep
  <2> QED
    BY <2>1, <2>4 DEF Pending
<1> QED
  BY <1>1, TypeCorrect, PTL DEF Spec, ClockNotRestarted

\* A transaction spends its sender's nonce.
LEMMA NonceSpent ==
    ASSUME TypeOK, NEW b \in Presentable, NEW registered, NEW native,
           Consume(b, registered, native)
    PROVE  lanes'[b.account] # lanes[b.account]
<1>1. /\ b.account \in Accounts /\ b.lane \in Lane
      /\ lanes[b.account][b.lane] \in Nat
  BY BodyType, NonceAssumption DEF TypeOK, Sequence
<1>2. lanes'[b.account][b.lane] = lanes[b.account][b.lane] + 1
  BY <1>1 DEF Consume, TypeOK
<1> QED
  BY <1>1, <1>2

\* Keeping a map keeps who is registered in it.
LEMMA KeepsRegistered ==
    ASSUME Keeps(devices), NEW a \in Accounts
    PROVE  Registered(a)' = Registered(a)
BY DEF Keeps, Registered, IsRegistered

(* Nobody's devices change without the owner's signature or a recovery     *)
(* that was on the ledger for its whole window with enough approvals.      *)
THEOREM NoSilentTakeover == Spec => DevicesChangeWithNotice
<1>1. TypeOK /\ [Next]_vars => [ChangeIsNoticed]_vars
  <2> SUFFICES ASSUME TypeOK, Next, NEW a \in Accounts,
                      Registered(a)' # Registered(a)
               PROVE  \/ lanes'[a] # lanes[a]
                      \/ /\ IsRecovering(a)
                         /\ Cardinality(recoveries[a].approvals) >= threshold[a]
                         /\ HasElapsed(recoveries[a].openedAt, RecoveryWindow,
                                       ctx.finalized)
    BY DEF ChangeIsNoticed
  <2>1. ~UNCHANGED devices
    BY DEF Registered, IsRegistered
  <2>2. ~SettleNomadCounters
    BY SettleKeepsDevice DEF Registered, IsRegistered
  <2>3. PICK b \in Presentable :
           \/ MoneyKind(b) \/ IdentityKind(b) \/ EvidenceKind(b)
           \/ ChannelKind(b) \/ RegistryKind(b)
    BY <2>1, <2>2, BlockFootprint, SpendFootprint DEF Next
  <2>4. IdentityKind(b)
    BY <2>3, OtherKindsKeepDevices, KeepsRegistered
  <2>5. CASE a = b.account
    <3>1. \E registered : Consume(b, registered, 0)
      BY <2>4
         DEF IdentityKind, DeviceAdd, DeviceRevoke, GuardianSet,
             RecoveryStart, RecoveryCancel, RecoveryFinalise, NonceOnly
    <3> QED
      BY <2>5, <3>1, NonceSpent
  <2>6. CASE a # b.account
    <3>1. ASSUME NEW c \in Accounts, RecoveryFinalise(b, c), c = a
          PROVE  /\ IsRecovering(a)
                 /\ Cardinality(recoveries[a].approvals) >= threshold[a]
                 /\ HasElapsed(recoveries[a].openedAt, RecoveryWindow,
                               ctx.finalized)
      BY <3>1 DEF RecoveryFinalise, Finalise
    <3>2. ASSUME NEW registered, NEW kind, Is(b, kind, 0),
                 kind \notin AllowedInProvisional,
                 registered[a] = devices[a],
                 Consume(b, registered, 0)
          PROVE  FALSE
      <4>1. ~InPartition
        BY <3>2, OnlyOnChain
      <4>2. devices' = registered
        BY <3>2, <4>1 DEF Consume
      <4> QED
        BY <3>2, <4>2 DEF Registered, IsRegistered
    <3>3. devices \in DeviceMaps
      BY DEF TypeOK, DeviceMaps
    <3>4. ASSUME NEW d \in Keys, NEW l \in Lane, NEW n \in Sums,
                 DeviceAdd(b, d, l, n)
          PROVE  FALSE
      <4> DEFINE registered == [devices EXCEPT ![b.account][d] =
                                  [lane |-> l, share |-> n, spent |-> 0]]
      <4>1. Is(b, "DeviceAdd", 0) /\ Consume(b, registered, 0)
        BY <3>4 DEF DeviceAdd
      <4>2. registered[a] = devices[a]
        BY <2>6, <3>3 DEF DeviceMaps
      <4> QED
        BY <3>2, <4>1, <4>2 DEF AllowedInProvisional
    <3>5. ASSUME NEW d \in Keys, DeviceRevoke(b, d)
          PROVE  FALSE
      <4> DEFINE registered == [devices EXCEPT ![b.account][d] = None]
      <4>1. Is(b, "DeviceRevoke", 0) /\ Consume(b, registered, 0)
        BY <3>5 DEF DeviceRevoke
      <4>2. registered[a] = devices[a]
        BY <2>6, <3>3 DEF DeviceMaps
      <4> QED
        BY <3>2, <4>1, <4>2 DEF AllowedInProvisional
    <3>6. ASSUME NEW c \in Accounts, RecoveryFinalise(b, c), c # a
          PROVE  FALSE
      <4> DEFINE registered ==
            [devices EXCEPT ![c] =
               [d \in Keys |->
                  IF d = recoveries[c].newKey
                  THEN [lane |-> nextLane[c], share |-> 0, spent |-> 0]
                  ELSE None]]
      <4>1. Is(b, "RecoveryFinalise", 0) /\ Consume(b, registered, 0)
        BY <3>6 DEF RecoveryFinalise
      <4>2. registered[a] = devices[a]
        BY <3>3, <3>6 DEF DeviceMaps
      <4> QED
        BY <3>2, <4>1, <4>2 DEF AllowedInProvisional
    <3>7. ~ \/ \E s \in GuardianChoices, q \in ThresholdChoices :
                 GuardianSet(b, s, q)
            \/ \E c \in Accounts, d \in Keys : RecoveryStart(b, c, d)
            \/ \E c \in Accounts : RecoveryCancel(b, c)
      BY <2>1, <2>4, <3>2
         DEF GuardianSet, RecoveryStart, RecoveryCancel, NonceOnly,
             AllowedInProvisional
    <3>8. \E c \in Accounts : RecoveryFinalise(b, c) /\ c = a
      BY <2>4, <3>4, <3>5, <3>6, <3>7 DEF IdentityKind
    <3> QED
      BY <3>1, <3>8
  <2> QED
    BY <2>5, <2>6
<1> QED
  BY <1>1, TypeCorrect, PTL DEF Spec, DevicesChangeWithNotice

----------------------------------------------------------------------------
(* Channels.  That a claim is covered is not inductive by itself: it rests *)
(* on the capacity being worth no more than the deposit, from the opening. *)

CapacityCovered ==
    \A p \in PurseIds : IsOpen(p) =>
        purses[p].capacity * purses[p].trancheValue <= purses[p].deposit

ClaimInv == CapacityCovered /\ ClaimCovered

LEMMA TranchesAreNat == Tranches \subseteq Nat
BY PurseAssumption DEF Tranches

\* Dividing, flooring and multiplying back never gains anything.
LEMMA CapacityWorth ==
    ASSUME NEW deposit \in Nat, NEW value \in Nat \ {0}
    PROVE  Capacity(deposit, value) * value <= deposit
<1> DEFINE q == deposit \div value
<1>1. q \in Nat /\ q * value <= deposit
  OBVIOUS
<1>2. Capacity(deposit, value) \in Nat /\ Capacity(deposit, value) <= q
  BY <1>1, PurseAssumption DEF Capacity, Lesser
<1>3. ASSUME NEW m \in Nat, NEW n \in Nat, m <= n PROVE m * value <= n * value
  BY <1>3
<1> HIDE DEF q
<1>4. Capacity(deposit, value) * value <= q * value
  BY <1>1, <1>2, <1>3
<1>5. Capacity(deposit, value) * value \in Int /\ q * value \in Int
  BY <1>1, <1>2
<1> QED
  BY <1>1, <1>4, <1>5

\* What a transaction, or a hand-over, does to the channels.
LEMMA PurseStep ==
    ASSUME TypeOK, Next, ~UNCHANGED purses
    PROVE  \/ \E c \in Context : BeginBlock(c)
           \/ /\ UNCHANGED ctx
              /\ \E p \in PurseIds :
                   \/ \E a, payee \in Accounts, x \in Assets,
                         deposit, value \in Amount :
                        OpenPurse(p, a, payee, x, deposit, value)
                   \/ \E a \in Accounts, m, n \in Nat :
                        CloseCooperative(p, a, m, n)
                   \/ \E a \in Accounts, n \in Tranches :
                        BeginUnilateral(p, a, n, ctx.finalized)
                   \/ \E a \in Accounts, n \in Tranches : Dispute(p, a, n)
<1>1. ~SettleNomadCounters
  BY SettleFootprint DEF bookVars, purseVars
<1>2. \A b \in Presentable :
         ~(MoneyKind(b) \/ IdentityKind(b) \/ EvidenceKind(b) \/ RegistryKind(b))
  BY MoneyFootprint, IdentityFootprint, EvidenceFootprint, RegistryFootprint
     DEF bookVars, purseVars
<1>3. ASSUME NEW b \in Presentable, ChannelKind(b)
      PROVE  /\ UNCHANGED ctx
             /\ \E p \in PurseIds :
                   \/ \E a, payee \in Accounts, x \in Assets,
                         deposit, value \in Amount :
                        OpenPurse(p, a, payee, x, deposit, value)
                   \/ \E a \in Accounts, m, n \in Nat :
                        CloseCooperative(p, a, m, n)
                   \/ \E a \in Accounts, n \in Tranches :
                        BeginUnilateral(p, a, n, ctx.finalized)
                   \/ \E a \in Accounts, n \in Tranches : Dispute(p, a, n)
  <2>1. UNCHANGED ctx
    BY <1>3, ChannelFootprint
  <2>2. b.account \in Accounts /\ Sums \subseteq Amount /\ Sums \subseteq Nat
    BY BodyType, InputAssumption, SumsAreNat
  <2>3. PICK p \in PurseIds :
          \/ \E a \in Accounts, x \in Assets, deposit, value \in Sums :
                PurseOpen(b, p, a, x, deposit, value)
          \/ \E m, n \in Sums : PurseCloseCooperative(b, p, m, n)
          \/ \E n \in Tranches :
                PurseCloseUnilateral(b, p, n) \/ PurseDispute(b, p, n)
    BY <1>3 DEF ChannelKind
  <2>4. CASE \E a \in Accounts, x \in Assets, deposit, value \in Sums :
                PurseOpen(b, p, a, x, deposit, value)
    BY <2>1, <2>2, <2>4 DEF PurseOpen
  <2>5. CASE \E m, n \in Sums : PurseCloseCooperative(b, p, m, n)
    BY <2>1, <2>2, <2>5 DEF PurseCloseCooperative
  <2>6. CASE \E n \in Tranches :
                PurseCloseUnilateral(b, p, n) \/ PurseDispute(b, p, n)
    BY <2>1, <2>2, <2>6 DEF PurseCloseUnilateral, PurseDispute
  <2> QED
    BY <2>3, <2>4, <2>5, <2>6
<1> QED
  BY <1>1, <1>2, <1>3, SpendFootprint DEF Next

LEMMA ClaimStep ==
    ASSUME TypeOK, ClaimInv, [Next]_vars
    PROVE  ClaimInv'
<1>1. CASE UNCHANGED purses
  BY <1>1
     DEF ClaimInv, CapacityCovered, ClaimCovered, IsClosing, IsOpen
<1>2. \A p \in PurseIds : IsOpen(p) => purses[p] \in Purse
  BY DEF TypeOK, PurseTypeOK, IsOpen
\* A channel that is as it was, or gone, needs no more than that.
<1>3. ASSUME NEW p \in PurseIds, purses'[p] = purses[p] \/ purses'[p] = None
      PROVE  /\ IsOpen(p)' => purses'[p].capacity * purses'[p].trancheValue
                                <= purses'[p].deposit
             /\ IsClosing(p)' =>
                  /\ purses'[p].closing.claimed <= purses'[p].capacity
                  /\ purses'[p].closing.claimed * purses'[p].trancheValue
                       <= purses'[p].deposit
  BY <1>3 DEF ClaimInv, CapacityCovered, ClaimCovered, IsClosing, IsOpen
<1>4. ASSUME NEW c \in Context, BeginBlock(c) PROVE ClaimInv'
  <2>1. \A p \in PurseIds : purses'[p] = purses[p] \/ purses'[p] = None
    BY <1>4 DEF BeginBlock, SettleElapsed
  <2> QED
    BY <1>3, <2>1 DEF ClaimInv, CapacityCovered, ClaimCovered
<1>5. ASSUME NEW p \in PurseIds, NEW a \in Accounts, NEW payee \in Accounts,
             NEW x \in Assets, NEW deposit \in Amount, NEW value \in Amount,
             OpenPurse(p, a, payee, x, deposit, value)
      PROVE  ClaimInv'
  <2>1. deposit \in Nat /\ value \in Nat \ {0}
    BY <1>5, AmountsAreNat DEF OpenPurse
  <2>2. /\ purses'[p].capacity = Capacity(deposit, value)
        /\ purses'[p].trancheValue = value /\ purses'[p].deposit = deposit
        /\ purses'[p].closing = None
        /\ \A q \in PurseIds : q # p => purses'[q] = purses[q]
    BY <1>5 DEF OpenPurse, TypeOK, PurseTypeOK
  <2>3. purses'[p].capacity * purses'[p].trancheValue <= purses'[p].deposit
    BY <2>1, <2>2, CapacityWorth
  <2>4. ~IsClosing(p)'
    BY <2>2 DEF IsClosing
  <2> QED
    BY <1>3, <2>2, <2>3, <2>4 DEF ClaimInv, CapacityCovered, ClaimCovered
<1>6. ASSUME NEW p \in PurseIds, NEW a \in Accounts, NEW m \in Nat,
             NEW n \in Nat, CloseCooperative(p, a, m, n)
      PROVE  ClaimInv'
  <2>1. \A q \in PurseIds : purses'[q] = purses[q] \/ purses'[q] = None
    BY <1>6 DEF CloseCooperative, TypeOK, PurseTypeOK
  <2> QED
    BY <1>3, <2>1 DEF ClaimInv, CapacityCovered, ClaimCovered
\* A claim within the capacity is worth no more than the capacity is.
<1>7. ASSUME NEW p \in PurseIds, NEW n \in Tranches, IsOpen(p),
             n <= purses[p].capacity,
             purses'[p].capacity = purses[p].capacity,
             purses'[p].trancheValue = purses[p].trancheValue,
             purses'[p].deposit = purses[p].deposit,
             purses'[p].closing.claimed = n,
             \A q \in PurseIds : q # p => purses'[q] = purses[q]
      PROVE  ClaimInv'
  <2>1. /\ n \in Nat /\ purses[p].capacity \in Nat
        /\ purses[p].trancheValue \in Nat /\ purses[p].deposit \in Nat
    <3>1. purses[p] \in Purse
      BY <1>2, <1>7
    <3>2. /\ purses[p].capacity \in Tranches /\ purses[p].deposit \in Amount
          /\ purses[p].trancheValue \in Amount
      BY <3>1 DEF Purse
    <3> QED
      BY <3>2, AmountsAreNat, TranchesAreNat
  <2>2. ASSUME NEW k \in Nat, NEW l \in Nat, NEW v \in Nat, k <= l
        PROVE  k * v <= l * v /\ k * v \in Nat /\ l * v \in Nat
    BY <2>2
  <2>3. /\ n * purses[p].trancheValue
             <= purses[p].capacity * purses[p].trancheValue
        /\ n * purses[p].trancheValue \in Nat
        /\ purses[p].capacity * purses[p].trancheValue \in Nat
    BY <1>7, <2>1, <2>2
  <2>4. purses[p].capacity * purses[p].trancheValue <= purses[p].deposit
    BY <1>7 DEF ClaimInv, CapacityCovered
  <2>5. n * purses[p].trancheValue <= purses[p].deposit
    BY <2>1, <2>3, <2>4
  <2> QED
    BY <1>3, <1>7, <2>4, <2>5 DEF ClaimInv, CapacityCovered, ClaimCovered
<1>8. ASSUME NEW p \in PurseIds, NEW a \in Accounts, NEW n \in Tranches,
             \/ BeginUnilateral(p, a, n, ctx.finalized)
             \/ Dispute(p, a, n)
      PROVE  ClaimInv'
  <2>1. IsOpen(p) /\ purses[p] \in Purse /\ n <= purses[p].capacity
    BY <1>2, <1>8 DEF BeginUnilateral, Dispute, IsClosing
  <2>2. /\ purses'[p].capacity = purses[p].capacity
        /\ purses'[p].trancheValue = purses[p].trancheValue
        /\ purses'[p].deposit = purses[p].deposit
        /\ \A q \in PurseIds : q # p => purses'[q] = purses[q]
    BY <1>8, <2>1 DEF BeginUnilateral, Dispute, TypeOK, PurseTypeOK, Purse
  <2>3. CASE BeginUnilateral(p, a, n, ctx.finalized)
    BY <1>7, <2>1, <2>2, <2>3 DEF BeginUnilateral, TypeOK, PurseTypeOK, Purse
  <2>4. CASE Dispute(p, a, n)
    <3>1. purses[p].closing \in Closure
      BY <2>1, <2>4 DEF Dispute, IsClosing, Purse
    <3>2. purses'[p].closing.claimed = n
      BY <2>1, <2>4, <3>1 DEF Dispute, TypeOK, PurseTypeOK, Purse, Closure
    <3> QED
      BY <1>7, <2>1, <2>2, <3>2
  <2> QED
    BY <1>8, <2>3, <2>4
<1> QED
  BY <1>1, <1>4, <1>5, <1>6, <1>8, PurseStep DEF vars, bookVars, purseVars

LEMMA ClaimInit == LedgerInit => ClaimInv
BY DEF LedgerInit, PurseInit, ClaimInv, CapacityCovered, ClaimCovered,
       IsClosing, IsOpen

LEMMA ClaimInvariant == Spec => []ClaimInv
<1>1. TypeOK /\ ClaimInv /\ [Next]_vars => ClaimInv'
  BY ClaimStep
<1> QED
  BY <1>1, ClaimInit, TypeCorrect, PTL DEF Spec

(* Whatever is claimed against a channel, its deposit pays for.            *)
THEOREM ClaimsAreCovered == Spec => []ClaimCovered
<1>1. ClaimInv => ClaimCovered
  BY DEF ClaimInv
<1> QED
  BY <1>1, ClaimInvariant, PTL

\* Time passes in blocks only.
LEMMA ContextStep ==
    ASSUME Next
    PROVE  (\E c \in Context : BeginBlock(c)) \/ UNCHANGED ctx
BY MoneyFootprint, IdentityFootprint, EvidenceFootprint, ChannelFootprint,
   RegistryFootprint, SettleFootprint, SpendFootprint DEF Next

LEMMA NoElapsedStep ==
    ASSUME TypeOK, ClaimInv, NoElapsedPurseLingers, [Next]_vars
    PROVE  NoElapsedPurseLingers'
<1>1. ASSUME NEW c \in Context, BeginBlock(c) PROVE NoElapsedPurseLingers'
  <2> SUFFICES ASSUME NEW p \in PurseIds, IsClosing(p)'
               PROVE  ~HasElapsed(purses'[p].closing.openedAt, DisputeWindow,
                                  ctx'.finalized)
    BY DEF NoElapsedPurseLingers
  <2>1. purses'[p] = purses[p] /\ p \notin Elapsed(c.finalized)
    BY <1>1 DEF BeginBlock, SettleElapsed, IsClosing, IsOpen
  <2>2. IsClosing(p) /\ ~Settles(p, c.finalized)
    BY <2>1 DEF IsClosing, IsOpen, Elapsed
  <2>3. purses[p] \in Purse /\ purses[p].closing \in Closure
    BY <2>2 DEF IsClosing, IsOpen, TypeOK, PurseTypeOK, Purse
  <2>4. /\ purses[p].closing.claimed \in Nat
        /\ purses[p].trancheValue \in Nat /\ purses[p].deposit \in Amount
    <3>1. purses[p].closing.claimed \in Tranches
      BY <2>3 DEF Closure
    <3>2. purses[p].trancheValue \in Amount /\ purses[p].deposit \in Amount
      BY <2>3 DEF Purse
    <3> QED
      BY <3>1, <3>2, TranchesAreNat, AmountsAreNat
  <2>5. purses[p].closing.claimed * purses[p].trancheValue
          <= purses[p].deposit
    BY <2>2 DEF ClaimInv, ClaimCovered
  <2>6. purses[p].closing.claimed * purses[p].trancheValue \in Nat
    BY <2>4
  <2>7. purses[p].closing.claimed * purses[p].trancheValue <= MaxAmount
    BY <2>4, <2>5, <2>6, WidthAssumption DEF Amount
  <2>8. ctx' = c
    BY <1>1 DEF BeginBlock
  <2> QED
    BY <2>1, <2>2, <2>7, <2>8 DEF Settles
<1>2. CASE UNCHANGED <<ctx, purses>>
  BY <1>2 DEF NoElapsedPurseLingers, IsClosing, IsOpen
\* A channel that is as it was, gone or not closing needs no more than that.
<1>3. ASSUME NEW p \in PurseIds, UNCHANGED ctx,
             \/ purses'[p] = purses[p] \/ purses'[p] = None
             \/ purses'[p].closing = None
      PROVE  IsClosing(p)' =>
                ~HasElapsed(purses'[p].closing.openedAt, DisputeWindow,
                            ctx'.finalized)
  BY <1>3 DEF NoElapsedPurseLingers, IsClosing, IsOpen
<1>4. ASSUME NEW p \in PurseIds, NEW a \in Accounts, NEW payee \in Accounts,
             NEW x \in Assets, NEW deposit \in Amount, NEW value \in Amount,
             OpenPurse(p, a, payee, x, deposit, value), UNCHANGED ctx
      PROVE  NoElapsedPurseLingers'
  <2>1. /\ purses'[p].closing = None
        /\ \A q \in PurseIds : q # p => purses'[q] = purses[q]
    BY <1>4 DEF OpenPurse, TypeOK, PurseTypeOK
  <2> QED
    BY <1>3, <1>4, <2>1 DEF NoElapsedPurseLingers
<1>5. ASSUME NEW p \in PurseIds, NEW a \in Accounts, NEW m \in Nat,
             NEW n \in Nat, CloseCooperative(p, a, m, n), UNCHANGED ctx
      PROVE  NoElapsedPurseLingers'
  <2>1. \A q \in PurseIds : purses'[q] = purses[q] \/ purses'[q] = None
    BY <1>5 DEF CloseCooperative, TypeOK, PurseTypeOK
  <2> QED
    BY <1>3, <1>5, <2>1 DEF NoElapsedPurseLingers
<1>6. ASSUME NEW p \in PurseIds, NEW a \in Accounts, NEW n \in Tranches,
             BeginUnilateral(p, a, n, ctx.finalized), UNCHANGED ctx
      PROVE  NoElapsedPurseLingers'
  <2>1. purses[p] \in Purse
    BY <1>6 DEF BeginUnilateral, IsOpen, TypeOK, PurseTypeOK
  <2>2. /\ purses'[p].closing.openedAt = ctx.finalized
        /\ \A q \in PurseIds : q # p => purses'[q] = purses[q]
    BY <1>6, <2>1 DEF BeginUnilateral, TypeOK, PurseTypeOK, Purse
  <2>3. ctx.finalized \in Int
    BY WidthAssumption DEF TypeOK, Context, Height
  <2>4. ~HasElapsed(purses'[p].closing.openedAt, DisputeWindow, ctx'.finalized)
    BY <1>6, <2>2, <2>3, PurseAssumption DEF HasElapsed
  <2> QED
    BY <1>3, <1>6, <2>2, <2>4 DEF NoElapsedPurseLingers
<1>7. ASSUME NEW p \in PurseIds, NEW a \in Accounts, NEW n \in Tranches,
             Dispute(p, a, n), UNCHANGED ctx
      PROVE  NoElapsedPurseLingers'
  <2>1. purses[p] \in Purse /\ purses[p].closing \in Closure /\ IsClosing(p)
    BY <1>7 DEF Dispute, IsClosing, IsOpen, TypeOK, PurseTypeOK, Purse
  <2>2. /\ purses'[p].closing.openedAt = purses[p].closing.openedAt
        /\ \A q \in PurseIds : q # p => purses'[q] = purses[q]
    BY <1>7, <2>1 DEF Dispute, TypeOK, PurseTypeOK, Purse, Closure
  <2>3. ~HasElapsed(purses'[p].closing.openedAt, DisputeWindow, ctx'.finalized)
    BY <1>7, <2>1, <2>2 DEF NoElapsedPurseLingers
  <2> QED
    BY <1>3, <1>7, <2>2, <2>3 DEF NoElapsedPurseLingers
<1> QED
  BY <1>1, <1>2, <1>4, <1>5, <1>6, <1>7, PurseStep, ContextStep
     DEF vars, bookVars, purseVars

(* No transaction meets a channel whose window is over, so that dispute,   *)
(* which does not look at the window, is never too late.  It takes both    *)
(* that housekeeping comes first in a block and that no claim is skipped   *)
(* for overflowing.                                                        *)
THEOREM WindowsEndInHousekeeping == Spec => []NoElapsedPurseLingers
<1>1. LedgerInit => NoElapsedPurseLingers
  BY DEF LedgerInit, PurseInit, NoElapsedPurseLingers, IsClosing, IsOpen
<1>2. /\ TypeOK /\ ClaimInv /\ NoElapsedPurseLingers /\ [Next]_vars
      => NoElapsedPurseLingers'
  BY NoElapsedStep
<1> QED
  BY <1>1, <1>2, ClaimInvariant, TypeCorrect, PTL DEF Spec

(* Disputes only raise a claim and never reopen its window.                *)
THEOREM ClaimsRise == Spec => ClaimOnlyRises
<1>1. TypeOK /\ [Next]_vars => [ClaimKept]_purseVars
  <2> SUFFICES ASSUME TypeOK, Next, ~UNCHANGED purses PROVE ClaimKept
    <3>1. ASSUME TypeOK, UNCHANGED purses PROVE ClaimKept
      <4> SUFFICES ASSUME NEW p \in PurseIds, IsClosing(p)
                   PROVE  /\ purses[p].closing # None
                          /\ purses[p].closing.claimed
                               >= purses[p].closing.claimed
        BY <3>1 DEF ClaimKept
      <4>1. purses[p] \in Purse /\ purses[p].closing # None
        BY <3>1 DEF IsClosing, IsOpen, TypeOK, PurseTypeOK
      <4>2. purses[p].closing \in Closure
        BY <4>1 DEF Purse
      <4>3. purses[p].closing.claimed \in Nat
        BY <4>2, TranchesAreNat DEF Closure
      <4> QED
        BY <4>1, <4>3
    <3> QED
      BY <3>1 DEF vars, bookVars, purseVars
  <2> SUFFICES ASSUME NEW p \in PurseIds, IsClosing(p), purses'[p] # None
               PROVE  /\ purses'[p].closing # None
                      /\ purses'[p].closing.openedAt = purses[p].closing.openedAt
                      /\ purses'[p].closing.claimed >= purses[p].closing.claimed
                      /\ purses[p].closing.disputed => purses'[p].closing.disputed
    BY DEF ClaimKept
  <2>1. /\ purses[p] \in Purse /\ purses[p].closing \in Closure
        /\ IsOpen(p) /\ purses[p].closing.claimed \in Nat
    BY TranchesAreNat
       DEF IsClosing, IsOpen, TypeOK, PurseTypeOK, Purse, Closure
  <2>2. CASE purses'[p] = purses[p]
    BY <2>1, <2>2, NoneIsNoPurse
  <2>3. ASSUME NEW c \in Context, BeginBlock(c) PROVE purses'[p] = purses[p]
    BY <2>3 DEF BeginBlock, SettleElapsed
  <2>4. ASSUME NEW q \in PurseIds, NEW a \in Accounts, NEW payee \in Accounts,
               NEW x \in Assets, NEW deposit \in Amount, NEW value \in Amount,
               OpenPurse(q, a, payee, x, deposit, value)
        PROVE  purses'[p] = purses[p]
    BY <2>1, <2>4 DEF OpenPurse, TypeOK, PurseTypeOK
  <2>5. ASSUME NEW q \in PurseIds, NEW a \in Accounts, NEW m \in Nat,
               NEW n \in Nat, CloseCooperative(q, a, m, n)
        PROVE  purses'[p] = purses[p]
    BY <2>5 DEF CloseCooperative, TypeOK, PurseTypeOK
  <2>6. ASSUME NEW q \in PurseIds, NEW a \in Accounts, NEW n \in Tranches,
               BeginUnilateral(q, a, n, ctx.finalized)
        PROVE  purses'[p] = purses[p]
    BY <2>6 DEF BeginUnilateral, TypeOK, PurseTypeOK
  <2>7. ASSUME NEW q \in PurseIds, NEW a \in Accounts, NEW n \in Tranches,
               Dispute(q, a, n), q = p
        PROVE  /\ purses'[p].closing =
                    [purses[p].closing EXCEPT !.claimed = n, !.disputed = TRUE]
               /\ n > purses[p].closing.claimed
    BY <2>1, <2>7 DEF Dispute, TypeOK, PurseTypeOK, Purse
  <2>8. ASSUME NEW q \in PurseIds, NEW a \in Accounts, NEW n \in Tranches,
               Dispute(q, a, n), q # p
        PROVE  purses'[p] = purses[p]
    BY <2>8 DEF Dispute, TypeOK, PurseTypeOK
  <2>9. \/ purses'[p] = purses[p]
        \/ \E n \in Tranches :
             /\ purses'[p].closing =
                  [purses[p].closing EXCEPT !.claimed = n, !.disputed = TRUE]
             /\ n > purses[p].closing.claimed
    BY <2>3, <2>4, <2>5, <2>6, <2>7, <2>8, PurseStep
  <2>10. ASSUME NEW n \in Tranches,
                purses'[p].closing =
                  [purses[p].closing EXCEPT !.claimed = n, !.disputed = TRUE],
                n > purses[p].closing.claimed
         PROVE  /\ purses'[p].closing # None
                /\ purses'[p].closing.openedAt = purses[p].closing.openedAt
                /\ purses'[p].closing.claimed >= purses[p].closing.claimed
                /\ purses'[p].closing.disputed
    <3>1. /\ purses'[p].closing \in Closure
          /\ purses'[p].closing.claimed = n
          /\ purses'[p].closing.disputed
          /\ purses'[p].closing.openedAt = purses[p].closing.openedAt
      BY <2>1, <2>10 DEF Closure
    <3> QED
      BY <2>1, <2>10, <3>1, TranchesAreNat, NoneIsNoPurse
  <2> QED
    BY <2>2, <2>9, <2>10
<1> QED
  BY <1>1, TypeCorrect, PTL DEF Spec, ClaimOnlyRises

----------------------------------------------------------------------------
(* Names and convictions. *)

LEMMA NameStep ==
    ASSUME TypeOK, Next
    PROVE  \/ UNCHANGED <<ctx, owners, commitments>>
           \/ \E c \in Context : BeginBlock(c)
           \/ /\ UNCHANGED ctx
              /\ \E d \in Digest, a \in Accounts : Commit(d, a, ctx.finalized)
           \/ /\ UNCHANGED ctx
              /\ \E n \in Names, s \in Salts, a \in Accounts :
                   Reveal(n, s, a, ctx.finalized)
<1>1. ASSUME NEW b \in Presentable, RegistryKind(b)
      PROVE  \/ UNCHANGED <<owners, commitments>>
             \/ \E d \in Digest, a \in Accounts : Commit(d, a, ctx.finalized)
             \/ \E n \in Names, s \in Salts, a \in Accounts :
                  Reveal(n, s, a, ctx.finalized)
  BY <1>1, BodyType
     DEF RegistryKind, AssetCreate, AssetMint, AssetBurn, NameCommit,
         NameReveal, nameVars
<1>2. ASSUME NEW b \in Presentable,
             \/ MoneyKind(b) \/ IdentityKind(b)
             \/ EvidenceKind(b) \/ ChannelKind(b)
      PROVE  UNCHANGED <<owners, commitments>>
  BY <1>2, MoneyFootprint, IdentityFootprint, EvidenceFootprint,
     ChannelFootprint DEF bookVars, nameVars
<1>3. (SettleNomadCounters \/ \E p \in PurseIds, n \in Tranches : Spend(p, n))
        => UNCHANGED <<owners, commitments>>
  BY SettleFootprint, SpendFootprint DEF bookVars, nameVars
<1> QED
  BY <1>1, <1>2, <1>3, ContextStep DEF Next

LEMMA CommitmentStep ==
    ASSUME TypeOK, CommitmentsAreLive, [Next]_vars
    PROVE  CommitmentsAreLive'
<1>1. CASE UNCHANGED <<ctx, owners, commitments>>
  BY <1>1 DEF CommitmentsAreLive
<1>2. ASSUME NEW c \in Context, BeginBlock(c) PROVE CommitmentsAreLive'
  <2> SUFFICES ASSUME NEW d \in Digest, commitments'[d] # None
               PROVE  ctx'.finalized <= HeightPlus(commitments'[d].committedAt,
                                                   CommitmentExpiry)
    BY DEF CommitmentsAreLive
  <2>1. /\ commitments'[d] = commitments[d] /\ commitments[d] # None
        /\ ~IsStale(commitments[d], c.finalized)
        /\ ctx' = c
    BY <1>2 DEF BeginBlock, PruneExpired
  <2>2. commitments[d].committedAt \in Int /\ c.finalized \in Int
    BY <2>1, WidthAssumption
       DEF TypeOK, NameTypeOK, Commitment, Context, Height
  <2>3. HeightPlus(commitments[d].committedAt, CommitmentExpiry) \in Int
    BY <2>2, NameAssumption, WidthAssumption DEF HeightPlus, Lesser
  <2> QED
    BY <2>1, <2>2, <2>3 DEF IsStale
<1>3. ASSUME NEW d \in Digest, NEW a \in Accounts, UNCHANGED ctx,
             Commit(d, a, ctx.finalized)
      PROVE  CommitmentsAreLive'
  <2>1. /\ commitments'[d].committedAt = ctx.finalized
        /\ \A e \in Digest : e # d => commitments'[e] = commitments[e]
    BY <1>3 DEF Commit, TypeOK, NameTypeOK
  <2>2. ctx.finalized \in Nat /\ ctx.finalized <= MaxHeight
    BY WidthAssumption DEF TypeOK, Context, Height
  <2>3. ctx.finalized <= HeightPlus(ctx.finalized, CommitmentExpiry)
    BY <2>2, NameAssumption, WidthAssumption DEF HeightPlus, Lesser
  <2> QED
    BY <1>3, <2>1, <2>3 DEF CommitmentsAreLive
<1>4. ASSUME NEW n \in Names, NEW s \in Salts, NEW a \in Accounts,
             UNCHANGED ctx, Reveal(n, s, a, ctx.finalized)
      PROVE  CommitmentsAreLive'
  <2>1. \A e \in Digest : commitments'[e] = commitments[e]
                            \/ commitments'[e] = None
    BY <1>4 DEF Reveal, TypeOK, NameTypeOK
  <2> QED
    BY <1>4, <2>1 DEF CommitmentsAreLive
<1> QED
  BY <1>1, <1>2, <1>3, <1>4, NameStep DEF vars, bookVars, nameVars

(* No transaction meets a commitment past its expiry: the pruning and the  *)
(* expiry test of reveal draw the line at the same height.                 *)
THEOREM CommitmentsStayLive == Spec => []CommitmentsAreLive
<1>1. LedgerInit => CommitmentsAreLive
  BY DEF LedgerInit, NameInit, CommitmentsAreLive
<1>2. TypeOK /\ CommitmentsAreLive /\ [Next]_vars => CommitmentsAreLive'
  BY CommitmentStep
<1> QED
  BY <1>1, <1>2, TypeCorrect, PTL DEF Spec

(* A registered name keeps its owner for ever.                             *)
THEOREM NamesKeepOwners == Spec => NameNeverReassigned
<1>1. TypeOK /\ [Next]_vars => [NamesKept]_nameVars
  <2> SUFFICES ASSUME TypeOK, Next PROVE NamesKept
    BY DEF vars, bookVars, nameVars
  <2>1. \A c \in Context : BeginBlock(c) => UNCHANGED owners
    BY BlockFootprint
  <2>2. \A n \in Names, s \in Salts, a \in Accounts :
           Reveal(n, s, a, ctx.finalized) => NamesKept
    BY DEF Reveal, NamesKept, TypeOK, NameTypeOK
  <2>3. \A d \in Digest, a \in Accounts :
           Commit(d, a, ctx.finalized) => UNCHANGED owners
    BY DEF Commit
  <2> QED
    BY <2>1, <2>2, <2>3, NameStep DEF NamesKept
<1> QED
  BY <1>1, TypeCorrect, PTL DEF Spec, NameNeverReassigned

(* No margin is seized but for an offence that enters the book in the same *)
(* step, so never twice for one.                                           *)
THEOREM SeizuresAreFresh == Spec => SeizureNeedsFreshOffence
<1>1. TypeOK /\ [Next]_vars => [SeizureIsFresh]_vars
  <2> SUFFICES ASSUME TypeOK, Next, seizedMargin' # seizedMargin
               PROVE  \E offence \in AccountOffence :
                         /\ offence \notin accountOffences
                         /\ accountOffences' = accountOffences \cup {offence}
    BY DEF SeizureIsFresh
  <2>1. PICK b \in Presentable : EvidenceKind(b)
    BY MoneyFootprint, IdentityFootprint, ChannelFootprint, RegistryFootprint,
       BlockFootprint, SettleFootprint, SpendFootprint DEF Next, historyVars
  <2>2. \E a \in Accounts, d \in Keys, l \in Lane, s \in Sequence :
           AccountEquivocation(b, a, d, l, s)
    BY <2>1 DEF EvidenceKind, ValidatorEquivocation, historyVars
  <2> QED
    BY <2>2 DEF AccountEquivocation, RecordAccount, AccountOffence
<1> QED
  BY <1>1, TypeCorrect, PTL DEF Spec, SeizureNeedsFreshOffence

=============================================================================
