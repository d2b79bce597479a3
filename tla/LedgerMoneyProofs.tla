------------------------- MODULE LedgerMoneyProofs -------------------------
(***************************************************************************)
(* The ledger's money, for every value of the constants.  Native money and *)
(* assets are conserved, the shares of an account's devices stay within    *)
(* its credit, and no account loses more than its credit in a partition.   *)
(* Each kind of transaction, and housekeeping, has a lemma that says what  *)
(* it does to the sums; the theorems are at the ends of the sections.      *)
(***************************************************************************)
EXTENDS LedgerProofs, SumTheorems

\* What all accounts hold of asset x.
Held(funds, x) == SumFunctionOnSet([a \in Accounts |-> funds[a][x]], Accounts)

\* It is a natural number.
LEMMA HeldType ==
    ASSUME NEW funds \in Funds, NEW x \in Assets
    PROVE  Held(funds, x) \in Nat
<1> DEFINE f == [a \in Accounts |-> funds[a][x]]
<1>1. \A a \in Accounts : f[a] \in Nat
  BY DEF Funds
<1> HIDE DEF f
<1>2. SumFunctionOnSet(f, Accounts) \in Nat
  BY <1>1, IdentifierAssumption, SumNat
<1> QED
  BY <1>2 DEF Held, f

\* What one account's balance changes by, the whole changes by.
LEMMA HeldChange ==
    ASSUME NEW funds \in Funds, NEW x \in Assets, NEW a \in Accounts,
           NEW n \in Int, NEW other, other \in Funds,
           other[a][x] = funds[a][x] + n,
           \A c \in Accounts \ {a} : other[c][x] = funds[c][x]
    PROVE  Held(other, x) = Held(funds, x) + n
<1> DEFINE f == [c \in Accounts |-> funds[c][x]]
           g == [c \in Accounts |-> other[c][x]]
<1>1. \A c \in Accounts : f[c] \in Int
  BY DEF Funds
<1>2. g[a] \in Int /\ g[a] = f[a] + n /\ \A c \in Accounts \ {a} : g[c] = f[c]
  BY DEF Funds
<1> HIDE DEF f, g
<1>3. SumFunctionOnSet(g, Accounts) = SumFunctionOnSet(f, Accounts) - f[a] + g[a]
  BY <1>1, <1>2, IdentifierAssumption, SumChange
<1>4. SumFunctionOnSet(f, Accounts) \in Int
  BY <1>1, IdentifierAssumption, SumInt
<1> QED
  BY <1>1, <1>2, <1>3, <1>4 DEF Held, f, g

\* The part of n of asset x that is of asset y.
Part(x, y, n) == IF x = y THEN n ELSE 0

\* A debit takes its amount from the whole of its asset.
LEMMA HeldDebit ==
    ASSUME NEW funds \in Funds, NEW a \in Accounts, NEW x \in Assets,
           NEW y \in Assets, NEW n \in Nat, CanDebit(funds, a, x, n)
    PROVE  Held(Debit(funds, a, x, n), y) = Held(funds, y) - Part(x, y, n)
<1> DEFINE other == Debit(funds, a, x, n)
<1>1. other \in Funds
  BY DebitType
<1>2. /\ other[a][y] = funds[a][y] + (0 - Part(x, y, n))
      /\ \A c \in Accounts \ {a} : other[c][y] = funds[c][y]
  BY DEF Debit, Funds, Part
<1>3. 0 - Part(x, y, n) \in Int
  BY DEF Part
<1> HIDE DEF other
<1>4. Held(other, y) = Held(funds, y) + (0 - Part(x, y, n))
  BY <1>1, <1>2, <1>3, HeldChange
<1> QED
  BY <1>4, HeldType DEF Part, other

\* A credit adds its amount to the whole of its asset.
LEMMA HeldCredit ==
    ASSUME NEW funds \in Funds, NEW a \in Accounts, NEW x \in Assets,
           NEW y \in Assets, NEW n \in Nat
    PROVE  Held(Credit(funds, a, x, n), y) = Held(funds, y) + Part(x, y, n)
<1> DEFINE other == Credit(funds, a, x, n)
<1>1. other \in Funds
  BY CreditType
<1>2. /\ other[a][y] = funds[a][y] + Part(x, y, n)
      /\ \A c \in Accounts \ {a} : other[c][y] = funds[c][y]
  BY DEF Credit, Funds, Part
<1>3. Part(x, y, n) \in Int
  BY DEF Part
<1> HIDE DEF other
<1>4. Held(other, y) = Held(funds, y) + Part(x, y, n)
  BY <1>1, <1>2, <1>3, HeldChange
<1> QED
  BY <1>4 DEF other

\* The fee leaves the accounts but for the proposer's share, and what has
\* left them is in the pot or burned.
LEMMA FeeMoves ==
    ASSUME TypeOK, NEW b \in Presentable, NEW kind, NEW native,
           Is(b, kind, native), NEW funds, NEW penalty \in Nat,
           Collect(b, funds, penalty)
    PROVE  /\ \A x \in AssetIds : Held(AfterFee(b), x) = Held(balance, x)
           /\ Held(AfterFee(b), VAN) + burned' + contextPot'
                = Held(balance, VAN) + burned + contextPot + penalty
<1> DEFINE s == FeeSplit(b.fee)
           paid1 == Debit(balance, b.account, VAN, b.fee)
<1>1. balance \in Funds /\ ctx.proposer \in Accounts
  BY FundsType
<1>2. b.account \in Accounts /\ b.fee \in Nat /\ VAN \in Assets
  BY BodyType, AmountsAreNat
<1>3. /\ s.provider \in Nat /\ s.pot \in Nat /\ s.burn \in Nat
      /\ s.provider + s.pot + s.burn = b.fee
  BY <1>2, FeeSplitWhole
<1>4. CanDebit(balance, b.account, VAN, b.fee)
  BY DEF Is, Admits
<1>5. paid1 \in Funds
  BY <1>1, <1>2, <1>4, DebitType
<1>6. \A y \in Assets : /\ Held(paid1, y) = Held(balance, y) - Part(VAN, y, b.fee)
                        /\ Held(AfterFee(b), y) = Held(paid1, y) + Part(VAN, y, s.provider)
  <2> SUFFICES ASSUME NEW y \in Assets
               PROVE  /\ Held(paid1, y) = Held(balance, y) - Part(VAN, y, b.fee)
                      /\ Held(AfterFee(b), y) = Held(paid1, y) + Part(VAN, y, s.provider)
    OBVIOUS
  <2>1. Held(paid1, y) = Held(balance, y) - Part(VAN, y, b.fee)
    BY <1>1, <1>2, <1>4, HeldDebit
  <2>2. AfterFee(b) = Credit(paid1, ctx.proposer, VAN, s.provider)
    BY DEF AfterFee
  <2> HIDE DEF paid1, s
  <2>3. Held(Credit(paid1, ctx.proposer, VAN, s.provider), y) = Held(paid1, y) + Part(VAN, y, s.provider)
    BY <1>1, <1>2, <1>3, <1>5, HeldCredit
  <2> QED
    BY <2>1, <2>2, <2>3
<1>7. burned' = burned + s.burn + penalty /\ contextPot' = contextPot + s.pot
  BY DEF Collect
<1>8. burned \in Nat /\ contextPot \in Nat
  BY AmountsAreNat DEF TypeOK
<1>9. \A y \in Assets : Held(balance, y) \in Nat /\ Held(paid1, y) \in Nat
  BY <1>1, <1>5, HeldType
<1> HIDE DEF paid1, s
<1>10. \A x \in AssetIds : Held(AfterFee(b), x) = Held(balance, x)
  BY <1>6, <1>9, IdentifierAssumption DEF Assets, Part
<1>11. Held(AfterFee(b), VAN) = Held(balance, VAN) - b.fee + s.provider
  BY <1>2, <1>3, <1>6, <1>9 DEF Part
<1>12. Held(balance, VAN) \in Nat
  BY <1>2, <1>9
<1> QED
  BY <1>2, <1>3, <1>7, <1>8, <1>10, <1>11, <1>12

----------------------------------------------------------------------------
(* Deposits. *)

\* The purse books there can be.
Books == [PurseIds -> Purse \cup {None}]

\* What one channel of a book holds of an asset.
Worth(purse, x) ==
    IF purse # None /\ purse.asset = x THEN purse.deposit ELSE 0

\* What its channels hold of it in all.
LockedIn(book, x) ==
    SumFunctionOnSet([p \in PurseIds |-> Worth(book[p], x)], PurseIds)

\* What a channel holds is a natural number.
LEMMA WorthType ==
    ASSUME NEW purse \in Purse \cup {None}, NEW x
    PROVE  Worth(purse, x) \in Nat
BY AmountsAreNat DEF Worth, Purse

\* So is what all channels hold.
LEMMA LockedType ==
    ASSUME NEW book \in Books, NEW x
    PROVE  LockedIn(book, x) \in Nat
<1> DEFINE f == [p \in PurseIds |-> Worth(book[p], x)]
<1>1. \A p \in PurseIds : f[p] \in Nat
  BY WorthType DEF Books
<1> HIDE DEF f
<1>2. SumFunctionOnSet(f, PurseIds) \in Nat
  BY <1>1, PurseAssumption, SumNat
<1> QED
  BY <1>2 DEF LockedIn, f

\* The deposits of the channels open in an asset, summed over all channels.
LEMMA LockedWhole ==
    ASSUME NEW book \in Books, NEW x
    PROVE  SumFunction([p \in {p \in PurseIds : book[p] # None /\ book[p].asset = x} |->
                           book[p].deposit])
              = LockedIn(book, x)
<1> DEFINE T == {p \in PurseIds : book[p] # None /\ book[p].asset = x}
           f == [p \in T |-> book[p].deposit]
           g == [p \in PurseIds |-> Worth(book[p], x)]
<1>1. SumFunction(f) = SumFunctionOnSet(f, T)
  BY DEF SumFunction
<1>2. \A p \in T : f[p] \in Int
  <2> SUFFICES ASSUME NEW p \in T PROVE book[p].deposit \in Int
    OBVIOUS
  <2>1. book[p] \in Purse
    BY DEF Books
  <2> HIDE DEF T
  <2>2. book[p].deposit \in Amount
    BY <2>1 DEF Purse
  <2> QED
    BY <2>2, WidthAssumption DEF Amount
<1>3. \A p \in PurseIds : g[p] = IF p \in T THEN f[p] ELSE 0
  BY DEF Worth
<1>4. T \in SUBSET PurseIds
  OBVIOUS
<1> HIDE DEF T, f, g
<1>5. SumFunctionOnSet(f, T) = SumFunctionOnSet(g, PurseIds)
  BY <1>2, <1>3, <1>4, PurseAssumption, SumOfSubset
<1> QED
  BY <1>1, <1>5 DEF LockedIn, T, f, g

\* Replacing one channel changes what is locked by the difference of worth.
LEMMA LockedChange ==
    ASSUME NEW book \in Books, NEW other \in Books, NEW p \in PurseIds, NEW x,
           \A q \in PurseIds \ {p} : other[q] = book[q]
    PROVE  LockedIn(other, x)
              = LockedIn(book, x) - Worth(book[p], x) + Worth(other[p], x)
<1> DEFINE f == [q \in PurseIds |-> Worth(book[q], x)]
           g == [q \in PurseIds |-> Worth(other[q], x)]
<1>1. \A q \in PurseIds : f[q] \in Int
  BY WorthType DEF Books
<1>2. g[p] \in Int /\ \A q \in PurseIds \ {p} : g[q] = f[q]
  BY WorthType DEF Books
<1>3. f[p] = Worth(book[p], x) /\ g[p] = Worth(other[p], x)
  OBVIOUS
<1> HIDE DEF f, g
<1>4. SumFunctionOnSet(g, PurseIds) = SumFunctionOnSet(f, PurseIds) - f[p] + g[p]
  BY <1>1, <1>2, PurseAssumption, SumChange
<1> QED
  BY <1>3, <1>4 DEF LockedIn, f, g

----------------------------------------------------------------------------
(* The accounts of the whole ledger. *)

\* The stake of all accounts.
Staked(bonds) == SumFunctionOnSet(bonds, Accounts)

\* It is a natural number.
LEMMA StakedType ==
    ASSUME NEW bonds \in [Accounts -> Nat]
    PROVE  Staked(bonds) \in Nat
<1>1. \A a \in Accounts : bonds[a] \in Nat
  OBVIOUS
<1> QED
  BY <1>1, IdentifierAssumption, SumNat DEF Staked

\* What one account's stake changes by, the whole changes by.
LEMMA StakedChange ==
    ASSUME NEW bonds \in [Accounts -> Nat], NEW a \in Accounts, NEW n \in Nat
    PROVE  Staked([bonds EXCEPT ![a] = n]) = Staked(bonds) - bonds[a] + n
<1> DEFINE g == [bonds EXCEPT ![a] = n]
<1>1. \A c \in Accounts : bonds[c] \in Int
  OBVIOUS
<1>2. g[a] = n /\ g[a] \in Int /\ \A c \in Accounts \ {a} : g[c] = bonds[c]
  OBVIOUS
<1> HIDE DEF g
<1>3. SumFunctionOnSet(g, Accounts) = SumFunctionOnSet(bonds, Accounts) - bonds[a] + g[a]
  BY <1>1, <1>2, IdentifierAssumption, SumChange
<1> QED
  BY <1>2, <1>3 DEF Staked, g

\* The supply the registry records, 0 when there is no asset.
Supply(x) == IF Exists(x) THEN assets[x].supply ELSE 0

\* What a step has to keep: the native sum but for what it seizes, and the
\* gap between every asset and its recorded supply.
Conserving ==
    /\ Held(balance', VAN) + LockedIn(purses', VAN) + Staked(bonded')
         + burned' + contextPot' - seizedMargin'
       = Held(balance, VAN) + LockedIn(purses, VAN) + Staked(bonded)
           + burned + contextPot - seizedMargin
    /\ \A x \in AssetIds :
            Held(balance', x) + LockedIn(purses', x) - Supply(x)'
              = Held(balance, x) + LockedIn(purses, x) - Supply(x)

\* The sums are natural numbers in every typed state.
LEMMA MoneyTypes ==
    ASSUME TypeOK
    PROVE  /\ balance \in Funds /\ purses \in Books
           /\ bonded \in [Accounts -> Nat]
           /\ \A x \in Assets : Held(balance, x) \in Nat
                                /\ LockedIn(purses, x) \in Nat
           /\ Staked(bonded) \in Nat
           /\ burned \in Nat /\ contextPot \in Nat /\ seizedMargin \in Nat
           /\ \A x \in AssetIds : Supply(x) \in Nat
           /\ VAN \in Assets /\ AssetIds \subseteq Assets
<1>1. /\ balance \in Funds /\ purses \in Books /\ bonded \in [Accounts -> Nat]
      /\ burned \in Nat /\ contextPot \in Nat /\ seizedMargin \in Nat
  <2>1. /\ purses \in Books /\ bonded \in [Accounts -> Amount]
        /\ burned \in Amount /\ contextPot \in Amount /\ seizedMargin \in Nat
    BY Zenon DEF TypeOK, PurseTypeOK, Books
  <2> QED
    BY <2>1, FundsType, AmountsAreNat
<1>2. \A x \in AssetIds : Supply(x) \in Nat
  BY AmountsAreNat DEF TypeOK, AssetTypeOK, Supply, Exists, AssetRecord
<1> QED
  BY <1>1, <1>2, HeldType, LockedType, StakedType DEF Assets

\* The same, as a state predicate.
MoneyTyped ==
    /\ balance \in Funds /\ purses \in Books
    /\ \A x \in Assets : Held(balance, x) \in Nat
                         /\ LockedIn(purses, x) \in Nat
    /\ Staked(bonded) \in Nat
    /\ burned \in Nat /\ contextPot \in Nat /\ seizedMargin \in Nat
    /\ \A x \in AssetIds : Supply(x) \in Nat

\* In every typed state, and so in the one that follows.
LEMMA Typed == TypeOK => MoneyTyped
BY MoneyTypes DEF MoneyTyped

\* In the next state too.
LEMMA TypedAfter == TypeOK' => MoneyTyped'
BY Typed, PTL

\* The same, for the primed sums.
LEMMA TypesAfter ==
    ASSUME TypeOK'
    PROVE  /\ \A x \in Assets : Held(balance', x) \in Nat
                                /\ LockedIn(purses', x) \in Nat
           /\ purses' \in Books
           /\ Staked(bonded') \in Nat
           /\ burned' \in Nat /\ contextPot' \in Nat /\ seizedMargin' \in Nat
           /\ \A x \in AssetIds : Supply(x)' \in Nat
BY TypedAfter DEF MoneyTyped

\* What a transaction that ends with these funds leaves to account for.
LEMMA CollectMoney ==
    ASSUME TypeOK, NEW b \in Presentable, NEW kind, NEW native,
           Is(b, kind, native), NEW funds, NEW penalty \in Nat,
           Collect(b, funds, penalty)
    PROVE  /\ balance' = funds /\ AfterFee(b) \in Funds
           /\ \A x \in AssetIds : Held(AfterFee(b), x) = Held(balance, x)
           /\ Held(AfterFee(b), VAN) + burned' + contextPot'
                = Held(balance, VAN) + burned + contextPot + penalty
           /\ \A x \in Assets : Held(AfterFee(b), x) \in Nat
           /\ burned' \in Int /\ contextPot' \in Int
<1>1. balance' = funds /\ AfterFee(b) \in Funds
  BY AfterFeeType DEF Collect, Is
<1>2. \A x \in Assets : Held(AfterFee(b), x) \in Nat
  BY <1>1, HeldType
<1>3. burned' \in Int /\ contextPot' \in Int
  BY MoneyTypes, BodyType, FeeSplitWhole DEF Collect
<1> QED
  BY <1>1, <1>2, <1>3, FeeMoves

\* A transaction conserves money when its kind, on top of the fee, moves
\* between funds, bonds, channels, the seized and the recorded supply.
LEMMA Balances ==
    ASSUME TypeOK, TypeOK', NEW b \in Presentable, NEW kind, NEW native,
           Is(b, kind, native), NEW funds, NEW penalty \in Nat,
           Collect(b, funds, penalty),
           Held(funds, VAN) + penalty + Staked(bonded')
             + LockedIn(purses', VAN) - seizedMargin'
           = Held(AfterFee(b), VAN) + Staked(bonded)
               + LockedIn(purses, VAN) - seizedMargin,
           \A x \in AssetIds :
              Held(funds, x) + LockedIn(purses', x) - Supply(x)'
                = Held(AfterFee(b), x) + LockedIn(purses, x) - Supply(x)
    PROVE  Conserving
<1>1. /\ balance' = funds
      /\ \A x \in AssetIds : Held(AfterFee(b), x) = Held(balance, x)
      /\ Held(AfterFee(b), VAN) + burned' + contextPot'
           = Held(balance, VAN) + burned + contextPot + penalty
      /\ \A x \in Assets : Held(AfterFee(b), x) \in Nat
  BY CollectMoney
<1>2. VAN \in Assets /\ AssetIds \subseteq Assets
  BY DEF Assets
<1>3. /\ Held(balance, VAN) \in Nat /\ LockedIn(purses, VAN) \in Nat
      /\ burned \in Nat /\ contextPot \in Nat /\ seizedMargin \in Nat
      /\ Staked(bonded) \in Nat
  BY <1>2, MoneyTypes
<1>4. /\ Held(funds, VAN) \in Nat /\ LockedIn(purses', VAN) \in Nat
      /\ burned' \in Nat /\ contextPot' \in Nat /\ seizedMargin' \in Nat
      /\ Staked(bonded') \in Nat
  BY <1>1, <1>2, TypesAfter
<1>5. Held(AfterFee(b), VAN) \in Nat
  BY <1>1, <1>2
<1>6. Held(balance', VAN) + LockedIn(purses', VAN) + Staked(bonded')
         + burned' + contextPot' - seizedMargin'
       = Held(balance, VAN) + LockedIn(purses, VAN) + Staked(bonded)
           + burned + contextPot - seizedMargin
  BY <1>1, <1>3, <1>4, <1>5
<1>7. \A x \in AssetIds :
            Held(balance', x) + LockedIn(purses', x) - Supply(x)'
              = Held(balance, x) + LockedIn(purses, x) - Supply(x)
  BY <1>1
<1> QED
  BY <1>6, <1>7 DEF Conserving

\* A transaction that only pays its fee conserves.
LEMMA FeeOnlyMoney ==
    ASSUME TypeOK, NEW b \in Presentable, NEW kind, Is(b, kind, 0), FeeOnly(b)
    PROVE  /\ \A x \in AssetIds : Held(balance', x) = Held(balance, x)
           /\ Held(balance', VAN) + burned' + contextPot'
                = Held(balance, VAN) + burned + contextPot
<1>1. AfterFee(b) \in Funds /\ Collect(b, AfterFee(b), 0)
  BY AfterFeeType DEF Is, FeeOnly
<1>2. balance' = AfterFee(b)
  BY <1>1 DEF Collect
<1>3. Held(balance, VAN) \in Nat /\ burned \in Nat /\ contextPot \in Nat
  BY MoneyTypes
<1> QED
  BY <1>1, <1>2, <1>3, FeeMoves

----------------------------------------------------------------------------
(* The kinds that move no money but their fee. *)

\* A transaction that changes funds only as the fee does conserves.
LEMMA PlainMoney ==
    ASSUME TypeOK, NEW b \in Presentable, NEW kind, Is(b, kind, 0), FeeOnly(b),
           UNCHANGED <<bonded, seizedMargin>>,
           \A x \in Assets : LockedIn(purses', x) = LockedIn(purses, x),
           \A x \in AssetIds : Supply(x)' = Supply(x)
    PROVE  Conserving
<1>1. /\ \A x \in AssetIds : Held(balance', x) = Held(balance, x)
      /\ Held(balance', VAN) + burned' + contextPot'
           = Held(balance, VAN) + burned + contextPot
  BY FeeOnlyMoney
<1>2. /\ \A x \in Assets : Held(balance, x) \in Nat /\ LockedIn(purses, x) \in Nat
      /\ burned \in Nat /\ contextPot \in Nat /\ seizedMargin \in Nat
      /\ Staked(bonded) \in Nat
      /\ VAN \in Assets /\ AssetIds \subseteq Assets
  BY MoneyTypes
<1>3. Held(balance', VAN) \in Int /\ burned' \in Int /\ contextPot' \in Int
  <2>1. Collect(b, AfterFee(b), 0)
    BY DEF FeeOnly
  <2> QED
    BY <1>2, <2>1, CollectMoney
<1>4. \A x \in AssetIds : Supply(x) \in Nat
  BY MoneyTypes
<1>5. Staked(bonded') = Staked(bonded) /\ seizedMargin' = seizedMargin
      /\ LockedIn(purses', VAN) = LockedIn(purses, VAN)
  BY <1>2
<1>6. Held(balance', VAN) + LockedIn(purses', VAN) + Staked(bonded')
         + burned' + contextPot' - seizedMargin'
       = Held(balance, VAN) + LockedIn(purses, VAN) + Staked(bonded)
           + burned + contextPot - seizedMargin
  BY <1>1, <1>2, <1>3, <1>5
<1>7. \A x \in AssetIds :
            Held(balance', x) + LockedIn(purses', x) - Supply(x)'
              = Held(balance, x) + LockedIn(purses, x) - Supply(x)
  BY <1>1, <1>2, <1>4
<1> QED
  BY <1>6, <1>7 DEF Conserving

\* Setting the offline credit moves no money but the fee.
LEMMA NomadSetMoney ==
    ASSUME TypeOK, NEW b \in Presentable, NEW credit \in Sums,
           NEW margin \in Sums, NomadSet(b, credit, margin)
    PROVE  Conserving
<1>1. /\ Is(b, "NomadSet", 0) /\ FeeOnly(b)
      /\ UNCHANGED <<bonded, seizedMargin, purses, assets>>
  BY DEF NomadSet, bookVars, purseVars, historyVars
<1>2. \A x \in AssetIds : Supply(x)' = Supply(x)
  BY <1>1 DEF Supply, Exists
<1> QED
  BY <1>1, <1>2, PlainMoney

\* Nor do the transactions on devices and guardians.
LEMMA IdentityMoney ==
    ASSUME TypeOK, NEW b \in Presentable, IdentityKind(b)
    PROVE  Conserving
<1>1. /\ \E kind : Is(b, kind, 0) /\ FeeOnly(b)
      /\ UNCHANGED bonded
  BY DEF IdentityKind, DeviceAdd, DeviceRevoke, GuardianSet, RecoveryStart,
         RecoveryCancel, RecoveryFinalise
<1>2. UNCHANGED <<seizedMargin, purses, assets>>
  BY IdentityFootprint DEF purseVars, historyVars
<1>3. PICK kind : Is(b, kind, 0) /\ FeeOnly(b)
  BY <1>1
<1>4. \A x \in AssetIds : Supply(x)' = Supply(x)
  BY <1>2 DEF Supply, Exists
<1>5. \A x \in Assets : LockedIn(purses', x) = LockedIn(purses, x)
  BY <1>2
<1> QED
  BY <1>1, <1>2, <1>3, <1>4, <1>5, PlainMoney

\* Nor do those on names.
LEMMA NameMoney ==
    ASSUME TypeOK, NEW b \in Presentable,
           \/ \E d \in Digest : NameCommit(b, d)
           \/ \E n \in Names, s \in Salts : NameReveal(b, n, s)
    PROVE  Conserving
<1>1. /\ \E kind : Is(b, kind, 0) /\ FeeOnly(b)
      /\ UNCHANGED <<bonded, seizedMargin, purses, assets>>
  BY DEF NameCommit, NameReveal, purseVars, historyVars
<1>2. \A x \in AssetIds : Supply(x)' = Supply(x)
  BY <1>1 DEF Supply, Exists
<1> QED
  BY <1>1, <1>2, PlainMoney

\* Announcing or disputing a closure leaves the deposit locked.
LEMMA ClosureMoney ==
    ASSUME TypeOK, NEW b \in Presentable, NEW p \in PurseIds, NEW n \in Tranches,
           PurseCloseUnilateral(b, p, n) \/ PurseDispute(b, p, n)
    PROVE  Conserving
<1>1. /\ \E kind : Is(b, kind, 0) /\ FeeOnly(b)
      /\ UNCHANGED <<bonded, seizedMargin, assets>>
  BY DEF PurseCloseUnilateral, PurseDispute, historyVars
<1>2. \A x \in AssetIds : Supply(x)' = Supply(x)
  BY <1>1 DEF Supply, Exists
<1>3. TypeOK'
  BY PurseCloseUnilateralType, PurseDisputeType
<1>4. purses \in Books /\ purses' \in Books
  BY <1>3 DEF TypeOK, PurseTypeOK, Books
<1>5. PICK closing \in Closure : purses' = [purses EXCEPT ![p].closing = closing]
  <2>1. CASE PurseCloseUnilateral(b, p, n)
    <3>1. [claimant |-> b.account, claimed |-> n, openedAt |-> ctx.finalized,
           disputed |-> FALSE] \in Closure
      BY BodyType DEF TypeOK, Context, Closure
    <3> QED
      BY <2>1, <3>1 DEF PurseCloseUnilateral, BeginUnilateral
  <2>2. CASE PurseDispute(b, p, n)
    <3>1. purses[p] \in Purse /\ purses[p].closing \in Closure
      BY <1>4, <2>2 DEF PurseDispute, Dispute, IsClosing, IsOpen, Purse, Books
    <3>2. [purses[p].closing EXCEPT !.claimed = n, !.disputed = TRUE] \in Closure
      BY <3>1 DEF Closure
    <3> QED
      BY <1>4, <2>2, <3>2 DEF PurseDispute, Dispute, Books
  <2> QED
    BY <2>1, <2>2
<1>6. /\ purses[p] \in Purse /\ purses[p] # None
      /\ purses'[p] \in Purse /\ purses'[p] # None
      /\ purses'[p].asset = purses[p].asset
      /\ purses'[p].deposit = purses[p].deposit
      /\ \A q \in PurseIds \ {p} : purses'[q] = purses[q]
  <2>1. purses[p] \in Purse /\ purses[p] # None
    BY <1>4 DEF PurseCloseUnilateral, PurseDispute, BeginUnilateral, Dispute,
                IsClosing, IsOpen, Books
  <2>2. purses'[p] = [purses[p] EXCEPT !.closing = closing]
    BY <1>4, <1>5 DEF Books
  <2>3. purses'[p] \in Purse /\ purses'[p].asset = purses[p].asset
        /\ purses'[p].deposit = purses[p].deposit
    BY <2>1, <2>2 DEF Purse
  <2>4. \A q \in PurseIds \ {p} : purses'[q] = purses[q]
    BY <1>4, <1>5 DEF Books
  <2> QED
    BY <2>1, <2>3, <2>4, NoneIsNoPurse
<1>7. \A x \in Assets : LockedIn(purses', x) = LockedIn(purses, x)
  <2> SUFFICES ASSUME NEW x \in Assets
               PROVE  LockedIn(purses', x) = LockedIn(purses, x)
    OBVIOUS
  <2>1. Worth(purses'[p], x) = Worth(purses[p], x) /\ Worth(purses[p], x) \in Nat
    BY <1>6, WorthType DEF Worth
  <2>2. LockedIn(purses', x)
          = LockedIn(purses, x) - Worth(purses[p], x) + Worth(purses'[p], x)
    BY <1>4, <1>6, LockedChange
  <2> QED
    BY <1>4, <2>1, <2>2, LockedType
<1> QED
  BY <1>1, <1>2, <1>7, PlainMoney

\* A new asset starts with no supply.
LEMMA AssetCreateMoney ==
    ASSUME TypeOK, NEW b \in Presentable, NEW x \in AssetIds, NEW t \in Tickers,
           NEW open \in BOOLEAN, AssetCreate(b, x, t, open)
    PROVE  Conserving
<1>1. /\ Is(b, "AssetCreate", 0) /\ FeeOnly(b)
      /\ UNCHANGED <<bonded, seizedMargin, purses>>
      /\ Create(x, b.account, t, open)
  BY DEF AssetCreate, purseVars, historyVars
<1>2. \A y \in AssetIds : Supply(y)' = Supply(y)
  <2>1. /\ assets'[x] = [issuer |-> b.account, ticker |-> t,
                         reissuable |-> open, supply |-> 0]
        /\ assets[x] = None
        /\ \A y \in AssetIds \ {x} : assets'[y] = assets[y]
    BY <1>1 DEF Create, Exists, TypeOK, AssetTypeOK
  <2>2. Supply(x)' = 0 /\ Supply(x) = 0
    BY <2>1 DEF Supply, Exists
  <2>3. \A y \in AssetIds \ {x} : Supply(y)' = Supply(y)
    BY <2>1 DEF Supply, Exists
  <2> QED
    BY <2>2, <2>3
<1> QED
  BY <1>1, <1>2, PlainMoney

----------------------------------------------------------------------------
(* The kinds that move money between accounts, bonds and penalties. *)

\* A transfer moves its amount, of any asset, between two accounts.
LEMMA TransferMoney ==
    ASSUME TypeOK, NEW b \in Presentable, NEW to \in Accounts,
           NEW x \in Assets, NEW n \in Sums, Transfer(b, to, x, n)
    PROVE  Conserving
<1> DEFINE funds == AfterFee(b)
           less == Debit(funds, b.account, x, n)
           more == Credit(less, to, x, n)
<1>1. /\ Is(b, "Transfer", Native(x, n)) /\ CanDebit(funds, b.account, x, n)
      /\ Collect(b, more, 0)
      /\ UNCHANGED <<bonded, seizedMargin, purses, assets>>
  BY DEF Transfer, bookVars, purseVars, historyVars
<1>2. n \in Nat /\ b.account \in Accounts /\ funds \in Funds
  BY <1>1, SumsAreNat, BodyType, CollectMoney
<1>3. \A y \in Assets : Held(more, y) = Held(funds, y)
  <2>1. less \in Funds
    BY <1>1, <1>2, DebitType
  <2> HIDE DEF funds
  <2>2. \A y \in Assets : Held(less, y) = Held(funds, y) - Part(x, y, n)
    BY <1>1, <1>2, HeldDebit
  <2> HIDE DEF less
  <2>3. \A y \in Assets : Held(more, y) = Held(less, y) + Part(x, y, n)
    BY <1>2, <2>1, HeldCredit
  <2>4. \A y \in Assets : Held(funds, y) \in Nat /\ Part(x, y, n) \in Nat
    BY <1>2, HeldType DEF Part
  <2> QED
    BY <2>2, <2>3, <2>4
<1>4. TypeOK'
  BY TransferType
<1>5. \A y \in AssetIds : Supply(y)' = Supply(y)
  BY <1>1 DEF Supply, Exists
<1>6. VAN \in Assets /\ AssetIds \subseteq Assets
  BY DEF Assets
<1>7. Held(more, VAN) + 0 = Held(funds, VAN)
  BY <1>2, <1>3, <1>6, HeldType
<1> HIDE DEF more
<1>8. Held(more, VAN) + 0 + Staked(bonded')
             + LockedIn(purses', VAN) - seizedMargin'
           = Held(AfterFee(b), VAN) + Staked(bonded)
               + LockedIn(purses, VAN) - seizedMargin
  BY <1>1, <1>7
<1>9. \A y \in AssetIds :
              Held(more, y) + LockedIn(purses', y) - Supply(y)'
                = Held(AfterFee(b), y) + LockedIn(purses, y) - Supply(y)
  BY <1>1, <1>3, <1>5, <1>6
<1> QED
  BY <1>1, <1>4, <1>8, <1>9, Balances

\* Bonding turns money into stake.
LEMMA BondMoney ==
    ASSUME TypeOK, NEW b \in Presentable, NEW n \in Sums, Bond(b, n)
    PROVE  Conserving
<1> DEFINE funds == AfterFee(b)
           less == Debit(funds, b.account, VAN, n)
<1>1. /\ Is(b, "Bond", n) /\ CanDebit(funds, b.account, VAN, n)
      /\ Collect(b, less, 0)
      /\ bonded' = [bonded EXCEPT ![b.account] = bonded[b.account] + n]
      /\ UNCHANGED <<seizedMargin, purses, assets>>
  BY DEF Bond, bookVars, purseVars, historyVars
<1>2. n \in Nat /\ b.account \in Accounts /\ funds \in Funds
  BY <1>1, SumsAreNat, BodyType, CollectMoney
<1>3. TypeOK'
  BY BondType
<1>4. VAN \in Assets /\ AssetIds \subseteq Assets /\ VAN \notin AssetIds
  BY IdentifierAssumption DEF Assets
<1> HIDE DEF funds
<1>5. \A y \in Assets : Held(less, y) = Held(funds, y) - Part(VAN, y, n)
  BY <1>1, <1>2, <1>4, HeldDebit
<1>6. Staked(bonded') = Staked(bonded) + n
  <2>1. bonded \in [Accounts -> Nat] /\ bonded[b.account] \in Nat
        /\ Staked(bonded) \in Nat
    BY <1>2, MoneyTypes
  <2> DEFINE m == bonded[b.account] + n
  <2>2. m \in Nat
    BY <1>2, <2>1
  <2>3. bonded' = [bonded EXCEPT ![b.account] = m]
    BY <1>1
  <2> HIDE DEF m
  <2>4. Staked(bonded') = Staked(bonded) - bonded[b.account] + m
    BY <1>2, <2>1, <2>2, <2>3, StakedChange
  <2> QED
    BY <1>2, <2>1, <2>4 DEF m
<1>7. \A y \in Assets : Held(funds, y) \in Nat
  BY <1>2, HeldType
<1> HIDE DEF less
<1>8. Held(less, VAN) = Held(funds, VAN) - n /\ Held(funds, VAN) \in Nat
  BY <1>2, <1>4, <1>5, <1>7 DEF Part
<1>9. /\ Staked(bonded) \in Nat /\ LockedIn(purses, VAN) \in Nat
      /\ seizedMargin \in Nat
  BY <1>4, MoneyTypes
<1>10. Held(less, VAN) + 0 + Staked(bonded')
             + LockedIn(purses', VAN) - seizedMargin'
           = Held(funds, VAN) + Staked(bonded)
               + LockedIn(purses, VAN) - seizedMargin
  BY <1>1, <1>2, <1>6, <1>8, <1>9
<1>11. \A y \in AssetIds :
              Held(less, y) + LockedIn(purses', y) - Supply(y)'
                = Held(funds, y) + LockedIn(purses, y) - Supply(y)
  <2>1. \A y \in AssetIds : Held(less, y) = Held(funds, y)
    BY <1>4, <1>5, <1>7 DEF Part
  <2>2. \A y \in AssetIds : Supply(y)' = Supply(y)
    BY <1>1 DEF Supply, Exists
  <2> QED
    BY <1>1, <2>1, <2>2
<1> QED
  BY <1>1, <1>3, <1>10, <1>11, Balances DEF funds

\* Unbonding turns stake into money.
LEMMA UnbondMoney ==
    ASSUME TypeOK, NEW b \in Presentable, NEW n \in Sums, Unbond(b, n)
    PROVE  Conserving
<1> DEFINE funds == AfterFee(b)
           more == Credit(funds, b.account, VAN, n)
<1>1. /\ Is(b, "Unbond", 0) /\ n <= bonded[b.account]
      /\ Collect(b, more, 0)
      /\ bonded' = [bonded EXCEPT ![b.account] = bonded[b.account] - n]
      /\ UNCHANGED <<seizedMargin, purses, assets>>
  BY DEF Unbond, bookVars, purseVars, historyVars
<1>2. n \in Nat /\ b.account \in Accounts /\ funds \in Funds
  BY <1>1, SumsAreNat, BodyType, CollectMoney
<1>3. TypeOK'
  BY UnbondType
<1>4. VAN \in Assets /\ AssetIds \subseteq Assets /\ VAN \notin AssetIds
  BY IdentifierAssumption DEF Assets
<1> HIDE DEF funds
<1>5. \A y \in Assets : Held(more, y) = Held(funds, y) + Part(VAN, y, n)
  BY <1>2, <1>4, HeldCredit
<1>6. Staked(bonded') = Staked(bonded) - n
  <2>1. bonded \in [Accounts -> Nat] /\ bonded[b.account] \in Nat
        /\ Staked(bonded) \in Nat
    BY <1>2, MoneyTypes
  <2> DEFINE m == bonded[b.account] - n
  <2>2. m \in Nat
    BY <1>1, <1>2, <2>1
  <2>3. bonded' = [bonded EXCEPT ![b.account] = m]
    BY <1>1
  <2> HIDE DEF m
  <2>4. Staked(bonded') = Staked(bonded) - bonded[b.account] + m
    BY <1>2, <2>1, <2>2, <2>3, StakedChange
  <2> QED
    BY <1>2, <2>1, <2>4 DEF m
<1>7. \A y \in Assets : Held(funds, y) \in Nat
  BY <1>2, HeldType
<1> HIDE DEF more
<1>8. Held(more, VAN) = Held(funds, VAN) + n /\ Held(funds, VAN) \in Nat
  BY <1>2, <1>4, <1>5, <1>7 DEF Part
<1>9. /\ Staked(bonded) \in Nat /\ LockedIn(purses, VAN) \in Nat
      /\ seizedMargin \in Nat
  BY <1>4, MoneyTypes
<1>10. Held(more, VAN) + 0 + Staked(bonded')
             + LockedIn(purses', VAN) - seizedMargin'
           = Held(funds, VAN) + Staked(bonded)
               + LockedIn(purses, VAN) - seizedMargin
  BY <1>1, <1>2, <1>6, <1>8, <1>9
<1>11. \A y \in AssetIds :
              Held(more, y) + LockedIn(purses', y) - Supply(y)'
                = Held(funds, y) + LockedIn(purses, y) - Supply(y)
  <2>1. \A y \in AssetIds : Held(more, y) = Held(funds, y)
    BY <1>4, <1>5, <1>7 DEF Part
  <2>2. \A y \in AssetIds : Supply(y)' = Supply(y)
    BY <1>1 DEF Supply, Exists
  <2> QED
    BY <1>1, <2>1, <2>2
<1> QED
  BY <1>1, <1>3, <1>10, <1>11, Balances DEF funds

\* A penalty is all paid out or destroyed: what it adds to the accounts and
\* to the burned is what was seized.
LEMMA PenaltyMoney ==
    ASSUME TypeOK, TypeOK', NEW b \in Presentable, NEW kind, Is(b, kind, 0),
           NEW seized \in Nat, PayPenalty(b, seized),
           UNCHANGED <<purses, assets>>,
           Staked(bonded') - seizedMargin' + seized
             = Staked(bonded) - seizedMargin
    PROVE  Conserving
<1> DEFINE funds == AfterFee(b)
           split == PenaltySplit(seized)
           more == Credit(funds, b.account, VAN, split.toDenouncer)
<1>1. /\ split.toDenouncer \in Nat /\ split.burned \in Nat
      /\ split.toDenouncer + split.burned = seized
  BY PenaltySplitWhole
<1>2. Collect(b, more, split.burned)
  BY DEF PayPenalty
<1>3. b.account \in Accounts /\ funds \in Funds
  BY AfterFeeType, BodyType DEF Is
<1>4. VAN \in Assets /\ AssetIds \subseteq Assets /\ VAN \notin AssetIds
  BY IdentifierAssumption DEF Assets
<1> HIDE DEF funds, split
<1>5. \A y \in Assets :
         Held(more, y) = Held(funds, y) + Part(VAN, y, split.toDenouncer)
  BY <1>1, <1>3, <1>4, HeldCredit
<1>6. \A y \in Assets : Held(funds, y) \in Nat
  BY <1>3, HeldType
<1> HIDE DEF more
<1>7. Held(more, VAN) = Held(funds, VAN) + split.toDenouncer
      /\ Held(funds, VAN) \in Nat
  BY <1>4, <1>5, <1>6 DEF Part
<1>8. /\ Staked(bonded) \in Nat /\ LockedIn(purses, VAN) \in Nat
      /\ seizedMargin \in Nat
      /\ Staked(bonded') \in Nat /\ seizedMargin' \in Nat
  BY <1>4, MoneyTypes, TypesAfter
<1>9. Held(more, VAN) + split.burned + Staked(bonded')
             + LockedIn(purses', VAN) - seizedMargin'
           = Held(funds, VAN) + Staked(bonded)
               + LockedIn(purses, VAN) - seizedMargin
  <2>1. LockedIn(purses', VAN) = LockedIn(purses, VAN)
    OBVIOUS
  <2> QED
    BY <2>1, <1>1, <1>7, <1>8
<1>10. \A y \in AssetIds :
              Held(more, y) + LockedIn(purses', y) - Supply(y)'
                = Held(funds, y) + LockedIn(purses, y) - Supply(y)
  <2>1. \A y \in AssetIds : Held(more, y) = Held(funds, y)
    BY <1>4, <1>5, <1>6 DEF Part
  <2>2. \A y \in AssetIds : Supply(y)' = Supply(y)
    BY DEF Supply, Exists
  <2> QED
    BY <2>1, <2>2
<1> QED
  BY <1>1, <1>2, <1>9, <1>10, Balances DEF funds

\* Evidence seizes a margin out of the liable account or its stake.
LEMMA EvidenceMoney ==
    ASSUME TypeOK, NEW b \in Presentable, EvidenceKind(b)
    PROVE  Conserving
<1>1. PICK a \in Accounts :
        \/ \E d \in Keys, l \in Lane, s \in Sequence :
                AccountEquivocation(b, a, d, l, s)
        \/ \E h \in 1..LastHeight : ValidatorEquivocation(b, a, h)
  BY DEF EvidenceKind
<1>2. /\ bonded \in [Accounts -> Nat] /\ Staked(bonded) \in Nat
      /\ seizedMargin \in Nat /\ nomadMargin[a] \in Nat
  BY MoneyTypes, AmountsAreNat DEF TypeOK
<1>3. CASE \E d \in Keys, l \in Lane, s \in Sequence :
                AccountEquivocation(b, a, d, l, s)
  <2>1. TypeOK'
    BY <1>3, AccountEquivocationType
  <2>2. /\ Is(b, "AccountEquivocation", 0)
        /\ PayPenalty(b, nomadMargin[a])
        /\ seizedMargin' = seizedMargin + nomadMargin[a]
        /\ UNCHANGED <<bonded, purses, assets>>
    BY <1>3 DEF AccountEquivocation, purseVars
  <2>3. Staked(bonded') - seizedMargin' + nomadMargin[a]
             = Staked(bonded) - seizedMargin
    BY <1>2, <2>2
  <2> QED
    BY <1>2, <2>1, <2>2, <2>3, PenaltyMoney
<1>4. CASE \E h \in 1..LastHeight : ValidatorEquivocation(b, a, h)
  <2>1. TypeOK'
    BY <1>4, ValidatorEquivocationType
  <2>2. /\ Is(b, "ValidatorEquivocation", 0)
        /\ PayPenalty(b, bonded[a])
        /\ bonded' = [bonded EXCEPT ![a] = 0]
        /\ UNCHANGED <<seizedMargin, purses, assets>>
    BY <1>4 DEF ValidatorEquivocation, purseVars, historyVars
  <2>3. Staked(bonded') = Staked(bonded) - bonded[a] + 0
    BY <1>2, <2>2, StakedChange
  <2>4. bonded[a] \in Nat
    BY <1>2
  <2>5. Staked(bonded') - seizedMargin' + bonded[a]
             = Staked(bonded) - seizedMargin
    BY <1>2, <2>2, <2>3, <2>4
  <2> QED
    BY <2>1, <2>2, <2>4, <2>5, PenaltyMoney
<1> QED
  BY <1>1, <1>3, <1>4

----------------------------------------------------------------------------
(* Channels, mints and burns. *)

\* Opening a channel locks the deposit out of the payer's funds.
LEMMA PurseOpenMoney ==
    ASSUME TypeOK, NEW b \in Presentable, NEW p \in PurseIds,
           NEW payee \in Accounts, NEW x \in Assets,
           NEW deposit \in Sums, NEW trancheValue \in Sums,
           PurseOpen(b, p, payee, x, deposit, trancheValue)
    PROVE  Conserving
<1> DEFINE funds == AfterFee(b)
           less == Debit(funds, b.account, x, deposit)
<1>1. /\ Is(b, "PurseOpen", Native(x, deposit))
      /\ CanDebit(funds, b.account, x, deposit)
      /\ Collect(b, less, 0)
      /\ UNCHANGED <<bonded, seizedMargin, assets>>
  BY DEF PurseOpen, historyVars
<1>2. deposit \in Nat /\ b.account \in Accounts /\ funds \in Funds
  BY <1>1, SumsAreNat, BodyType, CollectMoney
<1>3. TypeOK'
  BY PurseOpenType
<1>4. VAN \in Assets /\ AssetIds \subseteq Assets
  BY DEF Assets
<1> HIDE DEF funds
<1>5. \A y \in Assets : Held(less, y) = Held(funds, y) - Part(x, y, deposit)
  BY <1>1, <1>2, HeldDebit
<1>6. \A y \in Assets : LockedIn(purses', y)
                           = LockedIn(purses, y) + Part(x, y, deposit)
  <2> SUFFICES ASSUME NEW y \in Assets
               PROVE  LockedIn(purses', y)
                           = LockedIn(purses, y) + Part(x, y, deposit)
    OBVIOUS
  <2>1. purses \in Books /\ purses' \in Books
    BY <1>3, MoneyTypes, TypesAfter
  <2>2. /\ purses[p] = None
        /\ purses'[p] \in Purse /\ purses'[p].asset = x
        /\ purses'[p].deposit = deposit
        /\ \A q \in PurseIds \ {p} : purses'[q] = purses[q]
    <3> DEFINE purse ==
            [payer |-> b.account, payee |-> payee, asset |-> x,
             deposit |-> deposit, trancheValue |-> trancheValue,
             capacity |-> Capacity(deposit, trancheValue),
             closing |-> None]
    <3>2. /\ purses[p] = None /\ purses' = [purses EXCEPT ![p] = purse]
          /\ trancheValue \in Amount \ {0} /\ deposit \in Amount
      BY InputAssumption DEF PurseOpen, OpenPurse, IsOpen
    <3>3. purse \in Purse
      BY <1>2, <3>2, AmountsAreNat, CapacityType DEF Purse
    <3>4. purse.asset = x /\ purse.deposit = deposit
      OBVIOUS
    <3> HIDE DEF purse
    <3>5. /\ purses'[p] = purse
          /\ \A q \in PurseIds \ {p} : purses'[q] = purses[q]
      BY <2>1, <3>2 DEF Books
    <3> QED
      BY <3>2, <3>3, <3>4, <3>5
  <2>3. Worth(purses[p], y) = 0
    BY <2>2 DEF Worth
  <2>4. Worth(purses'[p], y) = Part(x, y, deposit)
    BY <2>2, NoneIsNoPurse DEF Worth, Part
  <2>5. LockedIn(purses', y)
          = LockedIn(purses, y) - Worth(purses[p], y) + Worth(purses'[p], y)
    BY <2>1, <2>2, LockedChange
  <2>6. LockedIn(purses, y) \in Nat
    BY <2>1, LockedType
  <2> QED
    BY <2>3, <2>4, <2>5, <2>6
<1>7. \A y \in Assets : /\ Held(funds, y) \in Nat /\ LockedIn(purses, y) \in Nat
                        /\ Part(x, y, deposit) \in Nat
  BY <1>2, HeldType, MoneyTypes DEF Part
<1> HIDE DEF less
<1>8. Held(less, VAN) + 0 + Staked(bonded')
             + LockedIn(purses', VAN) - seizedMargin'
           = Held(funds, VAN) + Staked(bonded)
               + LockedIn(purses, VAN) - seizedMargin
  <2>1. Staked(bonded) \in Nat /\ seizedMargin \in Nat
    BY MoneyTypes
  <2>2. /\ Held(less, VAN) = Held(funds, VAN) - Part(x, VAN, deposit)
        /\ LockedIn(purses', VAN) = LockedIn(purses, VAN) + Part(x, VAN, deposit)
        /\ Held(funds, VAN) \in Nat /\ LockedIn(purses, VAN) \in Nat
        /\ Part(x, VAN, deposit) \in Nat
    BY <1>4, <1>5, <1>6, <1>7
  <2> QED
    BY <1>1, <2>1, <2>2
<1>9. \A y \in AssetIds :
              Held(less, y) + LockedIn(purses', y) - Supply(y)'
                = Held(funds, y) + LockedIn(purses, y) - Supply(y)
  <2> SUFFICES ASSUME NEW y \in AssetIds
               PROVE  Held(less, y) + LockedIn(purses', y) - Supply(y)'
                        = Held(funds, y) + LockedIn(purses, y) - Supply(y)
    OBVIOUS
  <2>1. Supply(y)' = Supply(y) /\ Supply(y) \in Nat
    BY <1>1, MoneyTypes DEF Supply, Exists
  <2>2. /\ Held(less, y) = Held(funds, y) - Part(x, y, deposit)
        /\ LockedIn(purses', y) = LockedIn(purses, y) + Part(x, y, deposit)
        /\ Held(funds, y) \in Nat /\ LockedIn(purses, y) \in Nat
        /\ Part(x, y, deposit) \in Nat
    BY <1>4, <1>5, <1>6, <1>7
  <2> QED
    BY <2>1, <2>2
<1> QED
  BY <1>1, <1>3, <1>8, <1>9, Balances DEF funds

\* A cooperative closure pays the deposit out to the two parties.
LEMMA PurseCloseCooperativeMoney ==
    ASSUME TypeOK, NEW b \in Presentable, NEW p \in PurseIds,
           NEW m \in Sums, NEW n \in Sums, PurseCloseCooperative(b, p, m, n)
    PROVE  Conserving
<1> DEFINE purse == purses[p]
           x == purse.asset
           funds == AfterFee(b)
           some == Credit(funds, purse.payer, x, m)
           more == Credit(some, purse.payee, x, n)
<1>1. /\ Is(b, "PurseCloseCooperative", 0)
      /\ Collect(b, more, 0)
      /\ purse # None /\ m + n = purse.deposit
      /\ purses' = [purses EXCEPT ![p] = None]
      /\ UNCHANGED <<bonded, seizedMargin, assets>>
  BY DEF PurseCloseCooperative, CloseCooperative, IsOpen, historyVars
<1>2. m \in Nat /\ n \in Nat /\ funds \in Funds /\ purses \in Books
  BY <1>1, SumsAreNat, CollectMoney, MoneyTypes
<1>3. TypeOK'
  BY PurseCloseCooperativeType
<1>4. VAN \in Assets /\ AssetIds \subseteq Assets
  BY DEF Assets
<1>5. /\ purse \in Purse /\ purse.payer \in Accounts /\ purse.payee \in Accounts
      /\ x \in Assets
  BY <1>1, <1>2 DEF Books, Purse
<1>6. \A y \in Assets : LockedIn(purses', y)
                           = LockedIn(purses, y) - Part(x, y, m + n)
  <2> SUFFICES ASSUME NEW y \in Assets
               PROVE  LockedIn(purses', y)
                           = LockedIn(purses, y) - Part(x, y, m + n)
    OBVIOUS
  <2>1. purses' \in Books
    BY <1>3, TypesAfter
  <2>2. /\ purses'[p] = None
        /\ \A q \in PurseIds \ {p} : purses'[q] = purses[q]
    BY <1>1, <1>2 DEF Books
  <2>3. Worth(purses[p], y) = Part(x, y, m + n) /\ Worth(purses'[p], y) = 0
    BY <1>1, <2>2 DEF Worth, Part
  <2>4. LockedIn(purses', y)
          = LockedIn(purses, y) - Worth(purses[p], y) + Worth(purses'[p], y)
    BY <1>2, <2>1, <2>2, LockedChange
  <2>5. LockedIn(purses, y) \in Nat /\ Part(x, y, m + n) \in Nat
    BY <1>2, LockedType DEF Part
  <2> QED
    BY <2>3, <2>4, <2>5
<1> HIDE DEF purse, x, funds
<1>7. \A y \in Assets : Held(some, y) = Held(funds, y) + Part(x, y, m)
  BY <1>2, <1>5, HeldCredit
<1>8. some \in Funds
  BY <1>2, <1>5, CreditType
<1> HIDE DEF some
<1>9. \A y \in Assets : Held(more, y) = Held(some, y) + Part(x, y, n)
  BY <1>2, <1>5, <1>8, HeldCredit
<1>10. \A y \in Assets : /\ Held(funds, y) \in Nat /\ LockedIn(purses, y) \in Nat
                         /\ Held(some, y) \in Nat
  BY <1>2, <1>8, HeldType, MoneyTypes
<1> HIDE DEF more
<1>11. \A y \in Assets : Held(more, y) + LockedIn(purses', y)
                           = Held(funds, y) + LockedIn(purses, y)
  <2> SUFFICES ASSUME NEW y \in Assets
               PROVE  Held(more, y) + LockedIn(purses', y)
                           = Held(funds, y) + LockedIn(purses, y)
    OBVIOUS
  <2>1. Part(x, y, m + n) = Part(x, y, m) + Part(x, y, n)
        /\ Part(x, y, m) \in Nat /\ Part(x, y, n) \in Nat
    BY <1>2 DEF Part
  <2> QED
    BY <2>1, <1>6, <1>7, <1>9, <1>10
<1>12. Held(more, VAN) + 0 + Staked(bonded')
             + LockedIn(purses', VAN) - seizedMargin'
           = Held(funds, VAN) + Staked(bonded)
               + LockedIn(purses, VAN) - seizedMargin
  <2>1. /\ Staked(bonded) \in Nat /\ seizedMargin \in Nat
        /\ Staked(bonded') = Staked(bonded) /\ seizedMargin' = seizedMargin
    BY <1>1, MoneyTypes
  <2>2. /\ Held(more, VAN) + LockedIn(purses', VAN)
             = Held(funds, VAN) + LockedIn(purses, VAN)
        /\ Held(funds, VAN) \in Nat /\ LockedIn(purses, VAN) \in Nat
        /\ Held(more, VAN) \in Nat /\ LockedIn(purses', VAN) \in Nat
    <3>1. balance' = more
      BY <1>1 DEF Collect
    <3> QED
      BY <1>3, <1>4, <1>10, <1>11, <3>1, TypesAfter
  <2> QED
    BY <2>1, <2>2
<1>13. \A y \in AssetIds :
              Held(more, y) + LockedIn(purses', y) - Supply(y)'
                = Held(funds, y) + LockedIn(purses, y) - Supply(y)
  <2> SUFFICES ASSUME NEW y \in AssetIds
               PROVE  Held(more, y) + LockedIn(purses', y) - Supply(y)'
                        = Held(funds, y) + LockedIn(purses, y) - Supply(y)
    OBVIOUS
  <2>1. Supply(y)' = Supply(y)
    BY <1>1 DEF Supply, Exists
  <2>2. Held(more, y) + LockedIn(purses', y)
          = Held(funds, y) + LockedIn(purses, y)
    BY <1>4, <1>11
  <2>3. /\ Held(funds, y) \in Nat /\ LockedIn(purses, y) \in Nat
        /\ Held(more, y) \in Nat /\ LockedIn(purses', y) \in Nat
        /\ Supply(y) \in Nat
    <3>1. balance' = more
      BY <1>1 DEF Collect
    <3> QED
      BY <1>3, <1>4, <1>10, <3>1, TypesAfter, MoneyTypes
  <2> QED
    BY <2>1, <2>2, <2>3
<1> QED
  BY <1>1, <1>3, <1>12, <1>13, Balances DEF funds

\* Minting adds the same to the issuer's funds and the supply.
LEMMA AssetMintMoney ==
    ASSUME TypeOK, NEW b \in Presentable, NEW x \in AssetIds,
           NEW to \in Accounts, NEW n \in Sums, AssetMint(b, x, to, n)
    PROVE  Conserving
<1> DEFINE funds == AfterFee(b)
           more == Credit(funds, to, x, n)
<1>1. /\ Is(b, "AssetMint", 0) /\ AuthoriseMint(x, b.account, n)
      /\ Collect(b, more, 0)
      /\ UNCHANGED <<bonded, seizedMargin, purses>>
  BY DEF AssetMint, purseVars, historyVars
<1>2. n \in Nat /\ funds \in Funds
  BY <1>1, SumsAreNat, CollectMoney
<1>3. TypeOK'
  BY AssetMintType
<1>4. VAN \in Assets /\ AssetIds \subseteq Assets /\ x # VAN
  BY IdentifierAssumption DEF Assets
<1> HIDE DEF funds
<1>5. \A y \in Assets : Held(more, y) = Held(funds, y) + Part(x, y, n)
  BY <1>2, <1>4, HeldCredit
<1>6. \A y \in Assets : Held(funds, y) \in Nat /\ LockedIn(purses, y) \in Nat
  BY <1>2, HeldType, MoneyTypes
<1>7. \A y \in AssetIds : Supply(y)' = Supply(y) + Part(x, y, n)
  <2>1. /\ assets[x] # None /\ assets[x] \in AssetRecord
        /\ assets[x].supply \in Nat
        /\ assets' = [assets EXCEPT ![x].supply = assets[x].supply + n]
        /\ assets' \in [AssetIds -> AssetRecord \cup {None}]
        /\ assets \in [AssetIds -> AssetRecord \cup {None}]
    BY <1>1, <1>3, AmountsAreNat
       DEF AuthoriseMint, Exists, TypeOK, AssetTypeOK, AssetRecord
  <2>2. /\ assets'[x].supply = assets[x].supply + n
        /\ \A y \in AssetIds \ {x} : assets'[y] = assets[y]
    BY <2>1 DEF AssetRecord
  <2>3. assets'[x] # None
    <3>1. assets'[x] = [assets[x] EXCEPT !.supply = assets[x].supply + n]
      BY <2>1
    <3>2. assets[x].supply + n \in Amount
      BY <1>1, <1>2, <2>1 DEF AuthoriseMint, Amount
    <3>3. assets'[x] \in AssetRecord
      BY <2>1, <3>1, <3>2 DEF AssetRecord
    <3> QED
      BY <3>3, NoneIsNoAsset
  <2>4. Supply(x)' = Supply(x) + n
    BY <2>1, <2>2, <2>3 DEF Supply, Exists
  <2>5. \A y \in AssetIds \ {x} : Supply(y)' = Supply(y) /\ Supply(y) \in Nat
    BY <2>2, MoneyTypes DEF Supply, Exists
  <2> QED
    BY <2>4, <2>5 DEF Part
<1> HIDE DEF more
<1>8. Held(more, VAN) + 0 = Held(funds, VAN)
  BY <1>4, <1>5, <1>6 DEF Part
<1>9. Held(more, VAN) + 0 + Staked(bonded')
             + LockedIn(purses', VAN) - seizedMargin'
           = Held(funds, VAN) + Staked(bonded)
               + LockedIn(purses, VAN) - seizedMargin
  BY <1>1, <1>8
<1>10. \A y \in AssetIds :
              Held(more, y) + LockedIn(purses', y) - Supply(y)'
                = Held(funds, y) + LockedIn(purses, y) - Supply(y)
  <2> SUFFICES ASSUME NEW y \in AssetIds
               PROVE  Held(more, y) + LockedIn(purses', y) - Supply(y)'
                        = Held(funds, y) + LockedIn(purses, y) - Supply(y)
    OBVIOUS
  <2>1. /\ Supply(y) \in Nat /\ Part(x, y, n) \in Nat
        /\ Held(funds, y) \in Nat /\ LockedIn(purses, y) \in Nat
        /\ LockedIn(purses', y) = LockedIn(purses, y)
    BY <1>1, <1>2, <1>4, <1>6, MoneyTypes DEF Part
  <2> QED
    BY <2>1, <1>4, <1>5, <1>7
<1> QED
  BY <1>1, <1>3, <1>9, <1>10, Balances DEF funds

\* Burning takes the same from the issuer's funds and the supply.
LEMMA AssetBurnMoney ==
    ASSUME TypeOK, NEW b \in Presentable, NEW x \in AssetIds,
           NEW n \in Sums, AssetBurn(b, x, n)
    PROVE  Conserving
<1> DEFINE funds == AfterFee(b)
           less == Debit(funds, b.account, x, n)
<1>1. /\ Is(b, "AssetBurn", 0) /\ RecordBurn(x, n)
      /\ CanDebit(funds, b.account, x, n)
      /\ Collect(b, less, 0)
      /\ UNCHANGED <<bonded, seizedMargin, purses>>
  BY DEF AssetBurn, purseVars, historyVars
<1>2. n \in Nat /\ funds \in Funds /\ b.account \in Accounts
  BY <1>1, SumsAreNat, CollectMoney, BodyType
<1>3. TypeOK'
  BY AssetBurnType
<1>4. VAN \in Assets /\ AssetIds \subseteq Assets /\ x # VAN
  BY IdentifierAssumption DEF Assets
<1> HIDE DEF funds
<1>5. \A y \in Assets : Held(less, y) = Held(funds, y) - Part(x, y, n)
  BY <1>1, <1>2, <1>4, HeldDebit
<1>6. \A y \in Assets : Held(funds, y) \in Nat /\ LockedIn(purses, y) \in Nat
  BY <1>2, HeldType, MoneyTypes
<1>7. \A y \in AssetIds : Supply(y)' = Supply(y) - Part(x, y, n)
  <2>1. /\ assets[x] # None /\ assets[x] \in AssetRecord
        /\ assets[x].supply \in Nat /\ assets[x].supply \in Amount
        /\ assets' = [assets EXCEPT ![x].supply = assets[x].supply - n]
        /\ assets \in [AssetIds -> AssetRecord \cup {None}]
    BY <1>1, <1>3, AmountsAreNat
       DEF RecordBurn, Exists, TypeOK, AssetTypeOK, AssetRecord
  <2>2. /\ assets'[x].supply = assets[x].supply - n
        /\ \A y \in AssetIds \ {x} : assets'[y] = assets[y]
    BY <2>1 DEF AssetRecord
  <2>3. assets'[x] # None
    <3>1. assets'[x] = [assets[x] EXCEPT !.supply = assets[x].supply - n]
      BY <2>1
    <3>2. assets[x].supply - n \in Amount
      BY <1>1, <1>2, <2>1, WidthAssumption DEF RecordBurn, Amount
    <3>3. assets'[x] \in AssetRecord
      BY <2>1, <3>1, <3>2 DEF AssetRecord
    <3> QED
      BY <3>3, NoneIsNoAsset
  <2>4. Supply(x)' = Supply(x) - n
    BY <2>1, <2>2, <2>3 DEF Supply, Exists
  <2>5. \A y \in AssetIds \ {x} : Supply(y)' = Supply(y) /\ Supply(y) \in Nat
    BY <2>2, MoneyTypes DEF Supply, Exists
  <2> QED
    BY <2>4, <2>5 DEF Part
<1> HIDE DEF less
<1>8. Held(less, VAN) + 0 = Held(funds, VAN)
  BY <1>4, <1>5, <1>6 DEF Part
<1>9. Held(less, VAN) + 0 + Staked(bonded')
             + LockedIn(purses', VAN) - seizedMargin'
           = Held(funds, VAN) + Staked(bonded)
               + LockedIn(purses, VAN) - seizedMargin
  BY <1>1, <1>8
<1>10. \A y \in AssetIds :
              Held(less, y) + LockedIn(purses', y) - Supply(y)'
                = Held(funds, y) + LockedIn(purses, y) - Supply(y)
  <2> SUFFICES ASSUME NEW y \in AssetIds
               PROVE  Held(less, y) + LockedIn(purses', y) - Supply(y)'
                        = Held(funds, y) + LockedIn(purses, y) - Supply(y)
    OBVIOUS
  <2>1. /\ Supply(y) \in Nat /\ Part(x, y, n) \in Nat
        /\ Held(funds, y) \in Nat /\ LockedIn(purses, y) \in Nat
        /\ LockedIn(purses', y) = LockedIn(purses, y)
    BY <1>1, <1>2, <1>4, <1>6, MoneyTypes DEF Part
  <2> QED
    BY <2>1, <1>4, <1>5, <1>7
<1> QED
  BY <1>1, <1>3, <1>9, <1>10, Balances DEF funds

----------------------------------------------------------------------------
(* Housekeeping. *)

\* A settlement gives each party an amount, and together the deposit.
LEMMA SettlementParts ==
    ASSUME NEW purse \in Purse, purse.closing \in Closure
    PROVE  /\ Settlement(purse).toPayer \in Nat
           /\ Settlement(purse).toPayee \in Nat
           /\ Settlement(purse).toPayer + Settlement(purse).toPayee
                = purse.deposit
<1>1. /\ purse.deposit \in Nat /\ purse.trancheValue \in Nat
      /\ purse.closing.claimed \in Nat
  <2>1. purse.deposit \in Amount /\ purse.trancheValue \in Amount
    BY DEF Purse
  <2>2. purse.closing.claimed \in Tranches
    BY DEF Closure
  <2>3. purse.closing.claimed \in Nat
    BY <2>2, TranchesAreNat
  <2> QED
    BY <2>1, <2>3, AmountsAreNat
<1>2. purse.closing.claimed * purse.trancheValue \in Nat
  BY <1>1
<1> DEFINE worth == purse.closing.claimed * purse.trancheValue
<1> HIDE DEF worth
<1>3. /\ Owed(purse, purse.closing.claimed) \in Nat
      /\ Owed(purse, purse.closing.claimed) <= purse.deposit
  <2>1. Owed(purse, purse.closing.claimed) = Lesser(worth, purse.deposit)
    BY DEF Owed, worth
  <2> QED
    BY <1>1, <1>2, <2>1 DEF Lesser, worth
<1> DEFINE owed == Owed(purse, purse.closing.claimed)
<1>4. CASE purse.closing.disputed
  BY <1>1, <1>4 DEF Settlement
<1>5. CASE ~purse.closing.disputed
  <2>1. /\ Settlement(purse).toPayer = purse.deposit - owed
        /\ Settlement(purse).toPayee = owed
    BY <1>5 DEF Settlement
  <2> HIDE DEF owed
  <2>2. owed \in Nat /\ owed <= purse.deposit
    BY <1>3 DEF owed
  <2> QED
    BY <1>1, <2>1, <2>2
<1> QED
  BY <1>4, <1>5

\* What the settlement of channel p brings account a.
Share(p, a) ==
    (IF purses[p].payer = a THEN Settlement(purses[p]).toPayer ELSE 0)
  + (IF purses[p].payee = a THEN Settlement(purses[p]).toPayee ELSE 0)

\* What the settlement of channel p brings all accounts in asset x.
Due(p, x, now) ==
    IF p \in Elapsed(now) /\ purses[p].asset = x THEN purses[p].deposit ELSE 0

\* A channel whose closure elapses is in the book, with a closure and two parties.
LEMMA ElapsedType ==
    ASSUME TypeOK, NEW now, NEW p \in Elapsed(now)
    PROVE  /\ p \in PurseIds /\ purses[p] \in Purse /\ purses[p] # None
           /\ purses[p].closing \in Closure
           /\ purses[p].payer \in Accounts /\ purses[p].payee \in Accounts
           /\ purses[p].deposit \in Nat
<1>1. p \in PurseIds /\ purses[p] # None /\ purses[p].closing # None
  BY DEF Elapsed, Settles, IsClosing, IsOpen
<1>2. purses[p] \in Purse
  BY <1>1 DEF TypeOK, PurseTypeOK
<1> QED
  BY <1>1, <1>2, AmountsAreNat DEF Purse

\* Over all accounts, a settlement pays out the channel's deposit.
LEMMA SharesOfOne ==
    ASSUME TypeOK, NEW now, NEW p \in Elapsed(now)
    PROVE  SumFunctionOnSet([a \in Accounts |-> Share(p, a)], Accounts)
              = purses[p].deposit
<1> DEFINE s == Settlement(purses[p])
           f == [a \in Accounts |-> IF a = purses[p].payer THEN s.toPayer ELSE 0]
           g == [a \in Accounts |-> IF a = purses[p].payee THEN s.toPayee ELSE 0]
           h == [a \in Accounts |-> Share(p, a)]
<1>1. /\ s.toPayer \in Int /\ s.toPayee \in Int
      /\ s.toPayer + s.toPayee = purses[p].deposit
      /\ purses[p].payer \in Accounts /\ purses[p].payee \in Accounts
  BY ElapsedType, SettlementParts
<1>2. \A a \in Accounts : f[a] = IF a = purses[p].payer THEN s.toPayer ELSE 0
  OBVIOUS
<1>3. \A a \in Accounts : g[a] = IF a = purses[p].payee THEN s.toPayee ELSE 0
  OBVIOUS
<1>4. \A a \in Accounts : h[a] = f[a] + g[a]
  BY DEF Share
<1> HIDE DEF s, f, g, h
<1>5. \A a \in Accounts : f[a] \in Int /\ g[a] \in Int /\ h[a] = f[a] + g[a]
  BY <1>1, <1>2, <1>3, <1>4
<1>6. SumFunctionOnSet(f, Accounts) = s.toPayer
  BY <1>1, <1>2, IdentifierAssumption, SumOfOne
<1>7. SumFunctionOnSet(g, Accounts) = s.toPayee
  BY <1>1, <1>3, IdentifierAssumption, SumOfOne
<1>8. SumFunctionOnSet(h, Accounts)
        = SumFunctionOnSet(f, Accounts) + SumFunctionOnSet(g, Accounts)
  BY <1>5, IdentifierAssumption, SumPlus
<1> QED
  BY <1>1, <1>6, <1>7, <1>8 DEF h

\* What the accounts are paid is what the elapsed channels held.
LEMMA PaidOutWhole ==
    ASSUME TypeOK, NEW now, NEW x \in Assets
    PROVE  /\ \A a \in Accounts : PaidOut(a, x, now) \in Int
           /\ SumFunctionOnSet([a \in Accounts |-> PaidOut(a, x, now)], Accounts)
                = SumFunctionOnSet([p \in PurseIds |-> Due(p, x, now)], PurseIds)
<1> DEFINE T == {p \in Elapsed(now) : purses[p].asset = x}
           m == [a \in Accounts |-> [p \in PurseIds |->
                    IF p \in T THEN Share(p, a) ELSE 0]]
           row == [a \in Accounts |-> SumFunctionOnSet(m[a], PurseIds)]
           column == [p \in PurseIds |->
                SumFunctionOnSet([a \in Accounts |-> m[a][p]], Accounts)]
           due == [p \in PurseIds |-> Due(p, x, now)]
           out == [a \in Accounts |-> PaidOut(a, x, now)]
<1>1. T \in SUBSET PurseIds /\ \A p \in T : p \in Elapsed(now)
  BY DEF Elapsed
<1>2. \A p \in T, a \in Accounts : Share(p, a) \in Int
  <2> SUFFICES ASSUME NEW p \in T, NEW a \in Accounts
               PROVE  Share(p, a) \in Int
    OBVIOUS
  <2>1. /\ Settlement(purses[p]).toPayer \in Int
        /\ Settlement(purses[p]).toPayee \in Int
    BY <1>1, ElapsedType, SettlementParts
  <2> QED
    BY <2>1 DEF Share
<1>3. \A a \in Accounts : PaidOut(a, x, now) = SumFunctionOnSet(m[a], PurseIds)
  <2> SUFFICES ASSUME NEW a \in Accounts
               PROVE  PaidOut(a, x, now) = SumFunctionOnSet(m[a], PurseIds)
    OBVIOUS
  <2> DEFINE f == [p \in T |-> Share(p, a)]
             g == m[a]
  <2>1. PaidOut(a, x, now) = SumFunctionOnSet(f, T)
    BY DEF PaidOut, Share, SumFunction
  <2>2. \A p \in T : f[p] \in Int
    BY <1>2
  <2>3. \A p \in PurseIds : g[p] = IF p \in T THEN f[p] ELSE 0
    OBVIOUS
  <2> HIDE DEF T, f, g
  <2>4. SumFunctionOnSet(f, T) = SumFunctionOnSet(g, PurseIds)
    BY <1>1, <2>2, <2>3, PurseAssumption, SumOfSubset
  <2> QED
    BY <2>1, <2>4 DEF g
<1>4. \A a \in Accounts, p \in PurseIds : m[a][p] \in Int
  BY <1>2
<1>5. \A p \in PurseIds : column[p] = due[p]
  <2> SUFFICES ASSUME NEW p \in PurseIds PROVE column[p] = due[p]
    OBVIOUS
  <2> DEFINE f == [a \in Accounts |-> m[a][p]]
  <2>1. CASE p \in T
    <3>1. f = [a \in Accounts |-> Share(p, a)]
      BY <2>1
    <3>2. SumFunctionOnSet(f, Accounts) = purses[p].deposit
      BY <1>1, <2>1, <3>1, SharesOfOne
    <3>3. column[p] = SumFunctionOnSet(f, Accounts)
      OBVIOUS
    <3>4. due[p] = purses[p].deposit
      BY <2>1 DEF Due
    <3> QED
      BY <3>2, <3>3, <3>4
  <2>2. CASE p \notin T
    <3>1. \A a \in Accounts : f[a] = 0
      BY <2>2
    <3>2. column[p] = SumFunctionOnSet(f, Accounts)
      OBVIOUS
    <3>3. due[p] = 0
      BY <2>2 DEF Due
    <3> HIDE DEF f
    <3>4. SumFunctionOnSet(f, Accounts) = 0
      BY <3>1, IdentifierAssumption, SumZero
    <3> QED
      BY <3>2, <3>3, <3>4
  <2> QED
    BY <2>1, <2>2
<1>6. out = row
  BY <1>3
<1>7. SumFunctionOnSet(row, Accounts) = SumFunctionOnSet(column, PurseIds)
  <2> HIDE DEF m
  <2> QED
    BY <1>4, IdentifierAssumption, PurseAssumption, SumOfSums
<1>8. SumFunctionOnSet(column, PurseIds) = SumFunctionOnSet(due, PurseIds)
  <2> HIDE DEF column, due
  <2> QED
    BY <1>5, PurseAssumption, SumEqual
<1>9. \A a \in Accounts : PaidOut(a, x, now) \in Int
  <2> SUFFICES ASSUME NEW a \in Accounts PROVE PaidOut(a, x, now) \in Int
    OBVIOUS
  <2> DEFINE g == m[a]
  <2>1. \A p \in PurseIds : g[p] \in Int
    BY <1>4
  <2>2. PaidOut(a, x, now) = SumFunctionOnSet(g, PurseIds)
    BY <1>3
  <2> HIDE DEF g
  <2> QED
    BY <2>1, <2>2, PurseAssumption, SumInt
<1> QED
  BY <1>6, <1>7, <1>8, <1>9

\* Housekeeping moves the elapsed deposits to the accounts.
LEMMA HousekeepingMoves ==
    ASSUME TypeOK, NEW c \in Context, BeginBlock(c), NEW x \in Assets
    PROVE  Held(balance', x) + LockedIn(purses', x)
              = Held(balance, x) + LockedIn(purses, x)
<1> DEFINE now == c.finalized
           due == [p \in PurseIds |-> Due(p, x, now)]
           out == [a \in Accounts |-> PaidOut(a, x, now)]
           was == [a \in Accounts |-> balance[a][x]]
           is == [a \in Accounts |-> balance'[a][x]]
           open == [p \in PurseIds |-> Worth(purses[p], x)]
           left == [p \in PurseIds |-> Worth(purses'[p], x)]
<1>1. /\ \A a \in Accounts : out[a] \in Int
      /\ SumFunctionOnSet(out, Accounts) = SumFunctionOnSet(due, PurseIds)
  BY PaidOutWhole
<1>2. balance \in Funds /\ purses \in Books
  BY MoneyTypes
<1>3. \A a \in Accounts :
         was[a] \in Int /\ out[a] \in Int /\ is[a] = was[a] + out[a]
  BY <1>1, <1>2 DEF BeginBlock, Credited, Funds
<1>4. \A p \in PurseIds :
         left[p] \in Int /\ due[p] \in Int /\ open[p] = left[p] + due[p]
  <2> SUFFICES ASSUME NEW p \in PurseIds
               PROVE  /\ Worth(purses'[p], x) \in Int /\ Due(p, x, now) \in Int
                      /\ Worth(purses[p], x)
                           = Worth(purses'[p], x) + Due(p, x, now)
    OBVIOUS
  <2>1. purses'[p] = IF p \in Elapsed(now) THEN None ELSE purses[p]
    BY DEF BeginBlock, SettleElapsed
  <2>2. Worth(purses[p], x) \in Nat
    BY <1>2, WorthType DEF Books
  <2>3. CASE p \in Elapsed(now)
    <3>1. Worth(purses'[p], x) = 0
      BY <2>1, <2>3 DEF Worth
    <3>2. Due(p, x, now) = Worth(purses[p], x)
      BY <2>3, ElapsedType DEF Due, Worth
    <3> QED
      BY <2>2, <3>1, <3>2
  <2>4. CASE p \notin Elapsed(now)
    <3>1. Worth(purses'[p], x) = Worth(purses[p], x)
      BY <2>1, <2>4
    <3>2. Due(p, x, now) = 0
      BY <2>4 DEF Due
    <3> QED
      BY <2>2, <3>1, <3>2
  <2> QED
    BY <2>3, <2>4
<1>5. /\ Held(balance', x) = SumFunctionOnSet(is, Accounts)
      /\ Held(balance, x) = SumFunctionOnSet(was, Accounts)
      /\ LockedIn(purses, x) = SumFunctionOnSet(open, PurseIds)
      /\ LockedIn(purses', x) = SumFunctionOnSet(left, PurseIds)
  BY DEF Held, LockedIn
<1> HIDE DEF due, out, was, is, open, left
<1>6. SumFunctionOnSet(is, Accounts)
        = SumFunctionOnSet(was, Accounts) + SumFunctionOnSet(out, Accounts)
  BY <1>3, IdentifierAssumption, SumPlus
<1>7. SumFunctionOnSet(open, PurseIds)
        = SumFunctionOnSet(left, PurseIds) + SumFunctionOnSet(due, PurseIds)
  BY <1>4, PurseAssumption, SumPlus
<1>8. SumFunctionOnSet(was, Accounts) \in Int
  BY <1>3, IdentifierAssumption, SumInt
<1>9. /\ SumFunctionOnSet(left, PurseIds) \in Int
      /\ SumFunctionOnSet(due, PurseIds) \in Int
  BY <1>4, PurseAssumption, SumInt
<1> QED
  BY <1>1, <1>5, <1>6, <1>7, <1>8, <1>9

\* The start of a block conserves: housekeeping and the epoch.
LEMMA BeginBlockMoney ==
    ASSUME TypeOK, NEW c \in Context, BeginBlock(c)
    PROVE  Conserving
<1>1. UNCHANGED <<bonded, burned, contextPot, seizedMargin, assets>>
  BY DEF BeginBlock
<1>2. TypeOK'
  BY BeginBlockType
<1>3. VAN \in Assets /\ AssetIds \subseteq Assets
  BY DEF Assets
<1>4. \A x \in Assets : /\ Held(balance, x) \in Nat /\ LockedIn(purses, x) \in Nat
                        /\ Held(balance', x) \in Nat /\ LockedIn(purses', x) \in Nat
                        /\ Held(balance', x) + LockedIn(purses', x)
                             = Held(balance, x) + LockedIn(purses, x)
  BY <1>2, MoneyTypes, TypesAfter, HousekeepingMoves
<1>5. /\ Staked(bonded) \in Nat /\ burned \in Nat /\ contextPot \in Nat
      /\ seizedMargin \in Nat
  BY MoneyTypes
<1>6. Held(balance', VAN) + LockedIn(purses', VAN) + Staked(bonded')
         + burned' + contextPot' - seizedMargin'
       = Held(balance, VAN) + LockedIn(purses, VAN) + Staked(bonded)
           + burned + contextPot - seizedMargin
  <2>1. Staked(bonded') = Staked(bonded)
    BY <1>1
  <2>2. /\ Held(balance, VAN) \in Nat /\ LockedIn(purses, VAN) \in Nat
        /\ Held(balance', VAN) \in Nat /\ LockedIn(purses', VAN) \in Nat
        /\ Held(balance', VAN) + LockedIn(purses', VAN)
             = Held(balance, VAN) + LockedIn(purses, VAN)
    BY <1>3, <1>4
  <2> QED
    BY <1>1, <1>5, <2>1, <2>2
<1>7. \A x \in AssetIds :
            Held(balance', x) + LockedIn(purses', x) - Supply(x)'
              = Held(balance, x) + LockedIn(purses, x) - Supply(x)
  <2> SUFFICES ASSUME NEW x \in AssetIds
               PROVE  Held(balance', x) + LockedIn(purses', x) - Supply(x)'
                        = Held(balance, x) + LockedIn(purses, x) - Supply(x)
    OBVIOUS
  <2>1. Supply(x)' = Supply(x) /\ Supply(x) \in Nat
    BY <1>1, MoneyTypes DEF Supply, Exists
  <2>2. /\ Held(balance, x) \in Nat /\ LockedIn(purses, x) \in Nat
        /\ Held(balance', x) \in Nat /\ LockedIn(purses', x) \in Nat
        /\ Held(balance', x) + LockedIn(purses', x)
             = Held(balance, x) + LockedIn(purses, x)
    BY <1>3, <1>4
  <2> QED
    BY <2>1, <2>2
<1> QED
  BY <1>6, <1>7 DEF Conserving

\* A step that touches no money at all.
LEMMA StillMoney ==
    ASSUME TypeOK,
           UNCHANGED <<balance, purses, bonded, burned, contextPot,
                       seizedMargin, assets>>
    PROVE  Conserving
<1>1. \A x \in AssetIds : Supply(x)' = Supply(x)
  BY DEF Supply, Exists
<1> QED
  BY <1>1 DEF Conserving

----------------------------------------------------------------------------
(* The theorems. *)

\* Every transaction conserves.
LEMMA TransactionMoney ==
    ASSUME TypeOK, NEW b \in Presentable,
           \/ MoneyKind(b) \/ IdentityKind(b) \/ EvidenceKind(b)
           \/ ChannelKind(b) \/ RegistryKind(b)
    PROVE  Conserving
<1>1. CASE MoneyKind(b)
  BY <1>1, TransferMoney, BondMoney, UnbondMoney, NomadSetMoney DEF MoneyKind
<1>2. CASE ChannelKind(b)
  BY <1>2, PurseOpenMoney, PurseCloseCooperativeMoney, ClosureMoney
     DEF ChannelKind
<1>3. CASE RegistryKind(b)
  BY <1>3, AssetCreateMoney, AssetMintMoney, AssetBurnMoney, NameMoney
     DEF RegistryKind
<1> QED
  BY <1>1, <1>2, <1>3, IdentityMoney, EvidenceMoney

\* Every step of the ledger conserves.
LEMMA MoneyStep ==
    ASSUME TypeOK, [Next]_vars
    PROVE  Conserving
<1>1. ASSUME NEW c \in Context, BeginBlock(c) PROVE Conserving
  BY <1>1, BeginBlockMoney
<1>2. CASE SettleNomadCounters
  BY <1>2, StillMoney
     DEF SettleNomadCounters, feeVars, bookVars, purseVars, historyVars
<1>3. ASSUME NEW p \in PurseIds, NEW n \in Tranches, Spend(p, n)
      PROVE  Conserving
  BY <1>3, StillMoney DEF Spend, HandOverToken, feeVars, historyVars
<1>4. ASSUME NEW b \in Presentable,
             \/ MoneyKind(b) \/ IdentityKind(b) \/ EvidenceKind(b)
             \/ ChannelKind(b) \/ RegistryKind(b)
      PROVE  Conserving
  BY <1>4, TransactionMoney
<1>5. CASE UNCHANGED vars
  BY <1>5, StillMoney DEF vars, feeVars, bookVars, purseVars, historyVars
<1> QED
  BY <1>1, <1>2, <1>3, <1>4, <1>5 DEF Next

\* What Conserving keeps, from its value at genesis.
MoneyInv ==
    /\ Held(balance, VAN) + LockedIn(purses, VAN) + Staked(bonded)
         + burned + contextPot - seizedMargin = GenesisTotal
    /\ \A x \in AssetIds :
            Held(balance, x) + LockedIn(purses, x) - Supply(x) = 0

\* The invariant is inductive.
LEMMA MoneyKept ==
    ASSUME TypeOK, MoneyInv, [Next]_vars
    PROVE  MoneyInv'
<1>1. Conserving
  BY MoneyStep
<1>2. GenesisTotal' = GenesisTotal
  BY DEF GenesisTotal
<1>3. (Held(balance, VAN) + LockedIn(purses, VAN) + Staked(bonded)
         + burned + contextPot - seizedMargin)' = GenesisTotal
  BY <1>1 DEF MoneyInv, Conserving
<1>4. \A x \in AssetIds :
            (Held(balance, x) + LockedIn(purses, x) - Supply(x))' = 0
  BY <1>1 DEF MoneyInv, Conserving
<1> QED
  BY <1>2, <1>3, <1>4 DEF MoneyInv

\* It holds at genesis.
LEMMA MoneyInit == LedgerInit => MoneyInv
<1> SUFFICES ASSUME LedgerInit PROVE MoneyInv
  OBVIOUS
<1>1. TypeOK
  BY InitType
<1>2. \A x \in Assets : LockedIn(purses, x) = 0
  <2> SUFFICES ASSUME NEW x \in Assets PROVE LockedIn(purses, x) = 0
    OBVIOUS
  <2> DEFINE f == [p \in PurseIds |-> Worth(purses[p], x)]
  <2>1. \A p \in PurseIds : f[p] = 0
    BY DEF LedgerInit, PurseInit, Worth
  <2> HIDE DEF f
  <2>2. SumFunctionOnSet(f, PurseIds) = 0
    BY <2>1, PurseAssumption, SumZero
  <2> QED
    BY <2>2 DEF f, LockedIn
<1>3. Staked(bonded) = 0
  <2>1. \A a \in Accounts : bonded[a] = 0
    BY DEF LedgerInit
  <2> QED
    BY <2>1, IdentifierAssumption, SumZero DEF Staked
<1>4. \A x \in AssetIds : Held(balance, x) = 0
  <2> SUFFICES ASSUME NEW x \in AssetIds PROVE Held(balance, x) = 0
    OBVIOUS
  <2> DEFINE f == [a \in Accounts |-> balance[a][x]]
  <2>1. \A a \in Accounts : f[a] = 0
    BY IdentifierAssumption DEF LedgerInit, Assets
  <2> HIDE DEF f
  <2>2. SumFunctionOnSet(f, Accounts) = 0
    BY <2>1, IdentifierAssumption, SumZero
  <2> QED
    BY <2>2 DEF f, Held
<1>5. Held(balance, VAN) = GenesisTotal
  <2> DEFINE f == [a \in Accounts |-> balance[a][VAN]]
  <2>1. \A a \in Accounts : f[a] = GenesisBalance
    BY AmountsAreNat DEF LedgerInit
  <2>2. GenesisBalance \in Int
    BY GenesisAssumption, AmountsAreNat
  <2> HIDE DEF f
  <2>3. SumFunctionOnSet(f, Accounts) = GenesisBalance * Cardinality(Accounts)
    BY <2>1, <2>2, IdentifierAssumption, SumConstant
  <2> QED
    BY <2>3 DEF f, Held, GenesisTotal
<1>6. \A x \in AssetIds : Supply(x) = 0
  BY DEF LedgerInit, AssetInit, Supply, Exists
<1>7. burned = 0 /\ contextPot = 0 /\ seizedMargin = 0
  BY DEF LedgerInit
<1>8. VAN \in Assets /\ AssetIds \subseteq Assets
  BY DEF Assets
<1>9. Held(balance, VAN) \in Nat
  BY <1>1, <1>8, MoneyTypes
<1>10. Held(balance, VAN) + LockedIn(purses, VAN) + Staked(bonded)
         + burned + contextPot - seizedMargin = GenesisTotal
  BY <1>2, <1>3, <1>5, <1>7, <1>8, <1>9
<1>11. \A x \in AssetIds :
            Held(balance, x) + LockedIn(purses, x) - Supply(x) = 0
  BY <1>2, <1>4, <1>6, <1>8
<1> QED
  BY <1>10, <1>11 DEF MoneyInv

\* The properties' sums, taken apart.
LEMMA LockedIs ==
    ASSUME TypeOK, NEW x
    PROVE  Locked(x) = LockedIn(purses, x)
<1>1. purses \in Books
  BY MoneyTypes
<1> QED
  BY <1>1, LockedWhole DEF Locked, IsOpen

\* The property's native total is the sum of the three sums.
LEMMA NativeTotalIs ==
    ASSUME TypeOK
    PROVE  NativeTotal
              = Held(balance, VAN) + Staked(bonded) + LockedIn(purses, VAN)
<1> DEFINE f == [a \in Accounts |-> balance[a][VAN]]
           h == [a \in Accounts |-> balance[a][VAN] + bonded[a]]
<1>1. /\ SumFunction(h) = SumFunctionOnSet(h, Accounts)
      /\ Locked(VAN) = LockedIn(purses, VAN)
  BY LockedIs DEF SumFunction
<1>2. \A a \in Accounts :
         f[a] \in Int /\ bonded[a] \in Int /\ h[a] = f[a] + bonded[a]
  <2>1. /\ balance \in Funds /\ bonded \in [Accounts -> Nat] /\ VAN \in Assets
    BY MoneyTypes
  <2> QED
    BY <2>1 DEF Funds
<1>3. NativeTotal = SumFunction(h) + Locked(VAN)
  BY DEF NativeTotal
<1>4. Held(balance, VAN) = SumFunctionOnSet(f, Accounts)
  BY DEF Held
<1> HIDE DEF f, h
<1>5. SumFunctionOnSet(h, Accounts)
        = SumFunctionOnSet(f, Accounts) + SumFunctionOnSet(bonded, Accounts)
  BY <1>2, IdentifierAssumption, SumPlus
<1> QED
  BY <1>1, <1>3, <1>4, <1>5 DEF Staked

(* Native money is conserved, in every ledger: any number of accounts and  *)
(* channels, any amounts, any sequence of blocks and transactions.         *)
THEOREM NativeConserved == Spec => []NativeConservation
<1>1. TypeOK /\ MoneyInv => NativeConservation
  <2> SUFFICES ASSUME TypeOK, MoneyInv PROVE NativeConservation
    OBVIOUS
  <2>1. /\ Held(balance, VAN) \in Nat /\ LockedIn(purses, VAN) \in Nat
        /\ Staked(bonded) \in Nat /\ burned \in Nat /\ contextPot \in Nat
        /\ seizedMargin \in Nat
    BY MoneyTypes
  <2>2. Held(balance, VAN) + LockedIn(purses, VAN) + Staked(bonded)
         + burned + contextPot - seizedMargin = GenesisTotal
    BY DEF MoneyInv
  <2> QED
    BY <2>1, <2>2, NativeTotalIs DEF NativeConservation
<1>2. TypeOK /\ MoneyInv /\ [Next]_vars => MoneyInv'
  BY MoneyKept
<1> QED
  BY <1>1, <1>2, MoneyInit, TypeCorrect, PTL DEF Spec

(* The registry's supply of an asset is what accounts and channels hold.   *)
THEOREM AssetsConserved == Spec => []AssetConservation
<1>1. TypeOK /\ MoneyInv => AssetConservation
  <2> SUFFICES ASSUME TypeOK, MoneyInv, NEW x \in AssetIds
               PROVE  SumFunction([a \in Accounts |-> balance[a][x]]) + Locked(x)
                        = IF Exists(x) THEN assets[x].supply ELSE 0
    BY DEF AssetConservation
  <2>1. /\ Held(balance, x) \in Nat /\ LockedIn(purses, x) \in Nat
        /\ Supply(x) \in Nat
    BY MoneyTypes
  <2>2. Held(balance, x) + LockedIn(purses, x) - Supply(x) = 0
    BY DEF MoneyInv
  <2>3. SumFunction([a \in Accounts |-> balance[a][x]]) = Held(balance, x)
    BY DEF SumFunction, Held
  <2>4. Held(balance, x) + LockedIn(purses, x) = Supply(x)
    BY <2>1, <2>2
  <2> QED
    BY <2>3, <2>4, LockedIs DEF Supply
<1>2. TypeOK /\ MoneyInv /\ [Next]_vars => MoneyInv'
  BY MoneyKept
<1> QED
  BY <1>1, <1>2, MoneyInit, TypeCorrect, PTL DEF Spec

----------------------------------------------------------------------------
(* Offline credit: what the devices of an account may spend, and did. *)

\* The devices of one account.
Rows == [Keys -> Device \cup {None}]

\* A device's share, and what it spent, 0 where there is no device.
ShareOf(device) == IF device = None THEN 0 ELSE device.share
SpentOf(device) == IF device = None THEN 0 ELSE device.spent

\* Over the devices of one account.
Shared(row) == SumFunctionOnSet([d \in Keys |-> ShareOf(row[d])], Keys)
Spent(row) == SumFunctionOnSet([d \in Keys |-> SpentOf(row[d])], Keys)

\* A device's amounts are natural numbers.
LEMMA DeviceFields ==
    ASSUME NEW device \in Device
    PROVE  device.share \in Nat /\ device.spent \in Nat
BY AmountsAreNat DEF Device

\* So they are where there may be no device.
LEMMA DeviceWorth ==
    ASSUME NEW device \in Device \cup {None}
    PROVE  ShareOf(device) \in Nat /\ SpentOf(device) \in Nat
BY AmountsAreNat DEF ShareOf, SpentOf, Device

\* Every account has a row.
LEMMA RowOf ==
    ASSUME TypeOK, NEW a \in Accounts
    PROVE  devices[a] \in Rows
BY DEF TypeOK, Rows

\* Its sums are natural numbers.
LEMMA RowWorth ==
    ASSUME NEW row \in Rows
    PROVE  Shared(row) \in Nat /\ Spent(row) \in Nat
<1> DEFINE f == [d \in Keys |-> ShareOf(row[d])]
           g == [d \in Keys |-> SpentOf(row[d])]
<1>1. \A d \in Keys : f[d] \in Nat /\ g[d] \in Nat
  BY DeviceWorth DEF Rows
<1> HIDE DEF f, g
<1>2. SumFunctionOnSet(f, Keys) \in Nat
  BY <1>1, IdentifierAssumption, SumNat
<1>3. SumFunctionOnSet(g, Keys) \in Nat
  BY <1>1, IdentifierAssumption, SumNat
<1> QED
  BY <1>2, <1>3 DEF Shared, Spent, f, g

\* The model's Allocated is the sum of the shares.
LEMMA AllocatedIs ==
    ASSUME TypeOK, NEW a \in Accounts
    PROVE  Allocated(a) = Shared(devices[a])
<1> DEFINE T == Registered(a)
           f == [d \in T |-> devices[a][d].share]
           g == [d \in Keys |-> ShareOf(devices[a][d])]
<1>1. T \in SUBSET Keys
  BY DEF Registered
<1>2. \A d \in T : f[d] \in Int
  <2> SUFFICES ASSUME NEW d \in T PROVE devices[a][d].share \in Int
    OBVIOUS
  <2>1. devices[a][d] \in Device
    BY RowOf DEF Registered, IsRegistered, Rows
  <2> HIDE DEF T
  <2> QED
    BY <2>1, DeviceFields
<1>3. \A d \in Keys : g[d] = IF d \in T THEN f[d] ELSE 0
  BY DEF ShareOf, Registered, IsRegistered
<1>4. Allocated(a) = SumFunctionOnSet(f, T)
  BY DEF Allocated, SumFunction
<1> HIDE DEF T, f, g
<1>5. SumFunctionOnSet(f, T) = SumFunctionOnSet(g, Keys)
  BY <1>1, <1>2, <1>3, IdentifierAssumption, SumOfSubset
<1> QED
  BY <1>4, <1>5 DEF Shared, g

\* Replacing one device changes the sums by the difference.
LEMMA SharedChange ==
    ASSUME NEW row \in Rows, NEW other \in Rows, NEW d \in Keys,
           \A e \in Keys \ {d} : ShareOf(other[e]) = ShareOf(row[e])
    PROVE  Shared(other) = Shared(row) - ShareOf(row[d]) + ShareOf(other[d])
<1> DEFINE f == [e \in Keys |-> ShareOf(row[e])]
           g == [e \in Keys |-> ShareOf(other[e])]
<1>1. \A e \in Keys : f[e] \in Int
  BY DeviceWorth DEF Rows
<1>2. g[d] \in Int /\ \A e \in Keys \ {d} : g[e] = f[e]
  BY DeviceWorth DEF Rows
<1>3. f[d] = ShareOf(row[d]) /\ g[d] = ShareOf(other[d])
  OBVIOUS
<1> HIDE DEF f, g
<1>4. SumFunctionOnSet(g, Keys) = SumFunctionOnSet(f, Keys) - f[d] + g[d]
  BY <1>1, <1>2, IdentifierAssumption, SumChange
<1> QED
  BY <1>3, <1>4 DEF Shared, f, g

\* The same for what was spent.
LEMMA SpentChange ==
    ASSUME NEW row \in Rows, NEW other \in Rows, NEW d \in Keys,
           \A e \in Keys \ {d} : SpentOf(other[e]) = SpentOf(row[e])
    PROVE  Spent(other) = Spent(row) - SpentOf(row[d]) + SpentOf(other[d])
<1> DEFINE f == [e \in Keys |-> SpentOf(row[e])]
           g == [e \in Keys |-> SpentOf(other[e])]
<1>1. \A e \in Keys : f[e] \in Int
  BY DeviceWorth DEF Rows
<1>2. g[d] \in Int /\ \A e \in Keys \ {d} : g[e] = f[e]
  BY DeviceWorth DEF Rows
<1>3. f[d] = SpentOf(row[d]) /\ g[d] = SpentOf(other[d])
  OBVIOUS
<1> HIDE DEF f, g
<1>4. SumFunctionOnSet(g, Keys) = SumFunctionOnSet(f, Keys) - f[d] + g[d]
  BY <1>1, <1>2, IdentifierAssumption, SumChange
<1> QED
  BY <1>3, <1>4 DEF Spent, f, g

\* The sum of the shares depends on nothing else of the devices.
LEMMA SharedSame ==
    ASSUME NEW row \in Rows, NEW other \in Rows,
           \A d \in Keys : ShareOf(other[d]) = ShareOf(row[d])
    PROVE  Shared(other) = Shared(row)
<1> DEFINE f == [d \in Keys |-> ShareOf(row[d])]
           g == [d \in Keys |-> ShareOf(other[d])]
<1>1. f = g
  OBVIOUS
<1> QED
  BY <1>1 DEF Shared

----------------------------------------------------------------------------
(* Shares within the credit. *)

\* Another form of the property, about the devices and the credit there are.
Covered == \A a \in Accounts : Shared(devices[a]) <= nomadCredit[a]

\* In a typed state the two forms say the same.
LEMMA CoveredIs == TypeOK => (Covered <=> SharesWithinCredit)
BY AllocatedIs DEF Covered, SharesWithinCredit

\* A step that leaves every share, and no less credit.
LEMMA SharesKept ==
    ASSUME TypeOK, TypeOK', Covered, UNCHANGED nomadCredit,
           \A a \in Accounts, d \in Keys :
              ShareOf(devices'[a][d]) = ShareOf(devices[a][d])
    PROVE  Covered'
<1>1. \A a \in Accounts : devices[a] \in Rows /\ devices'[a] \in Rows
  BY DEF TypeOK, Rows
<1>2. \A a \in Accounts : Shared(devices'[a]) = Shared(devices[a])
  BY <1>1, SharedSame
<1> QED
  BY <1>2 DEF Covered

\* Every kind but four leaves the shares and the credit alone.
LEMMA KeepsShareOf ==
    ASSUME Keeps(devices), NEW a \in Accounts, NEW d \in Keys
    PROVE  ShareOf(devices'[a][d]) = ShareOf(devices[a][d])
BY DEF Keeps, ShareOf

\* A new credit covers the shares there are, or is refused.
LEMMA NomadSetCovered ==
    ASSUME TypeOK, Covered, NEW b \in Presentable, NEW credit \in Sums,
           NEW margin \in Sums, NomadSet(b, credit, margin)
    PROVE  Covered'
<1>1. /\ FitsCredit(b.account, 0, credit) /\ b.account \in Accounts
      /\ nomadCredit' = [nomadCredit EXCEPT ![b.account] = credit]
      /\ Is(b, "NomadSet", 0) /\ Consume(b, devices, 0)
  BY BodyType DEF NomadSet, NonceOnly
<1>2. ~InPartition
  BY <1>1, OnlyOnChain DEF AllowedInProvisional
<1>3. UNCHANGED devices
  BY <1>1, <1>2 DEF Consume
<1>4. Shared(devices[b.account]) <= credit
  <2>1. Shared(devices[b.account]) \in Nat
    BY <1>1, RowOf, RowWorth
  <2> QED
    BY <1>1, <2>1, AllocatedIs DEF FitsCredit
<1>5. nomadCredit \in [Accounts -> Amount]
  BY DEF TypeOK
<1> QED
  BY <1>1, <1>3, <1>4, <1>5 DEF Covered

\* A new device's share fits what the credit leaves, or it is refused.
LEMMA DeviceAddCovered ==
    ASSUME TypeOK, Covered, NEW b \in Presentable, NEW d \in Keys,
           NEW l \in Lane, NEW n \in Sums, DeviceAdd(b, d, l, n)
    PROVE  Covered'
<1> DEFINE device == [lane |-> l, share |-> n, spent |-> 0]
           a == b.account
<1>1. /\ Is(b, "DeviceAdd", 0) /\ devices[a][d] = None
      /\ FitsCredit(a, n, nomadCredit[a])
      /\ Consume(b, [devices EXCEPT ![a][d] = device], 0)
      /\ UNCHANGED nomadCredit
  BY DEF DeviceAdd, IsRegistered, nomadVars
<1>2. /\ a \in Accounts /\ n \in Nat
      /\ devices \in DeviceMaps /\ devices' \in DeviceMaps
  BY BodyType, SumsAreNat, DeviceAddType DEF TypeOK, DeviceMaps
<1>3. ~InPartition
  BY <1>1, OnlyOnChain DEF AllowedInProvisional
<1>4. devices' = [devices EXCEPT ![a][d] = device]
  BY <1>1, <1>3 DEF Consume
<1>5. device.share = n /\ device # None
  BY <1>2, <1>4, NoneIsNothing, InputAssumption, WidthAssumption
     DEF Device, Amount
<1> HIDE DEF device, a
<1>6. /\ devices'[a][d] = device
      /\ \A e \in Keys \ {d} : devices'[a][e] = devices[a][e]
      /\ \A c \in Accounts \ {a} : devices'[c] = devices[c]
  BY <1>2, <1>4 DEF DeviceMaps
<1>7. Shared(devices'[a]) = Shared(devices[a]) + n
  <2>1. devices[a] \in Rows /\ devices'[a] \in Rows
    BY <1>2 DEF DeviceMaps, Rows
  <2>2. ShareOf(devices[a][d]) = 0 /\ ShareOf(devices'[a][d]) = n
    BY <1>1, <1>5, <1>6 DEF ShareOf
  <2>3. Shared(devices'[a]) = Shared(devices[a]) - ShareOf(devices[a][d])
                                + ShareOf(devices'[a][d])
    BY <1>6, <2>1, SharedChange
  <2> QED
    BY <1>2, <2>1, <2>2, <2>3, RowWorth
<1>8. Shared(devices[a]) + n <= nomadCredit[a]
  BY <1>1, <1>2, AllocatedIs DEF FitsCredit
<1> QED
  BY <1>1, <1>6, <1>7, <1>8 DEF Covered

\* A device revoked only frees its share.
LEMMA DeviceRevokeCovered ==
    ASSUME TypeOK, Covered, NEW b \in Presentable, NEW d \in Keys,
           DeviceRevoke(b, d)
    PROVE  Covered'
<1> DEFINE a == b.account
<1>1. /\ Is(b, "DeviceRevoke", 0) /\ UNCHANGED nomadCredit
      /\ Consume(b, [devices EXCEPT ![a][d] = None], 0)
  BY DEF DeviceRevoke, nomadVars
<1>2. a \in Accounts /\ devices \in DeviceMaps /\ devices' \in DeviceMaps
  BY BodyType, DeviceRevokeType DEF TypeOK, DeviceMaps
<1>3. ~InPartition
  BY <1>1, OnlyOnChain DEF AllowedInProvisional
<1>4. devices' = [devices EXCEPT ![a][d] = None]
  BY <1>1, <1>3 DEF Consume
<1> HIDE DEF a
<1>5. /\ devices'[a][d] = None
      /\ \A e \in Keys \ {d} : devices'[a][e] = devices[a][e]
      /\ \A c \in Accounts \ {a} : devices'[c] = devices[c]
  BY <1>2, <1>4 DEF DeviceMaps
<1>6. Shared(devices'[a]) <= nomadCredit[a]
  <2>1. devices[a] \in Rows /\ devices'[a] \in Rows
    BY <1>2 DEF DeviceMaps, Rows
  <2>2. ShareOf(devices[a][d]) \in Nat /\ ShareOf(devices'[a][d]) = 0
    BY <1>5, <2>1, DeviceWorth DEF ShareOf, Rows
  <2>3. Shared(devices'[a]) = Shared(devices[a]) - ShareOf(devices[a][d])
                                + ShareOf(devices'[a][d])
    BY <1>5, <2>1, SharedChange
  <2>4. Shared(devices[a]) \in Nat /\ Shared(devices[a]) <= nomadCredit[a]
        /\ nomadCredit[a] \in Nat
    BY <1>2, <2>1, RowWorth, AmountsAreNat DEF Covered, TypeOK
  <2> QED
    BY <2>2, <2>3, <2>4
<1> QED
  BY <1>1, <1>5, <1>6 DEF Covered

\* A recovery leaves one device, without a share.
LEMMA RecoveryFinaliseCovered ==
    ASSUME TypeOK, Covered, NEW b \in Presentable, NEW a \in Accounts,
           RecoveryFinalise(b, a)
    PROVE  Covered'
<1> DEFINE new == recoveries[a].newKey
           device == [lane |-> nextLane[a], share |-> 0, spent |-> 0]
           row == [e \in Keys |-> IF e = new THEN device ELSE None]
<1>1. /\ Is(b, "RecoveryFinalise", 0)
      /\ nomadCredit' = [nomadCredit EXCEPT ![a] = 0]
      /\ Consume(b, [devices EXCEPT ![a] = row], 0)
  BY DEF RecoveryFinalise
<1>2. /\ devices \in DeviceMaps /\ devices' \in DeviceMaps
      /\ nomadCredit \in [Accounts -> Amount]
  BY RecoveryFinaliseType DEF TypeOK, DeviceMaps
<1>3. ~InPartition
  BY <1>1, OnlyOnChain DEF AllowedInProvisional
<1>4. devices' = [devices EXCEPT ![a] = row]
  BY <1>1, <1>3 DEF Consume
<1>5. \A e \in Keys : ShareOf(row[e]) = 0
  BY DEF ShareOf
<1> HIDE DEF row
<1>6. devices'[a] = row /\ \A c \in Accounts \ {a} : devices'[c] = devices[c]
  BY <1>2, <1>4 DEF DeviceMaps
<1>7. Shared(row) = 0
  <2> DEFINE f == [e \in Keys |-> ShareOf(row[e])]
  <2>1. \A e \in Keys : f[e] = 0
    BY <1>5
  <2> HIDE DEF f
  <2>2. SumFunctionOnSet(f, Keys) = 0
    BY <2>1, IdentifierAssumption, SumZero
  <2> QED
    BY <2>2 DEF Shared, f
<1> QED
  BY <1>1, <1>2, <1>6, <1>7 DEF Covered

\* Guardians and recovery's start and cancellation touch no share.
LEMMA GuardianKindsCovered ==
    ASSUME TypeOK, Covered, NEW b \in Presentable,
           \/ \E s \in GuardianChoices, q \in ThresholdChoices :
                GuardianSet(b, s, q)
           \/ \E a \in Accounts, d \in Keys : RecoveryStart(b, a, d)
           \/ \E a \in Accounts : RecoveryCancel(b, a)
    PROVE  Covered'
<1>1. \E kind : /\ Is(b, kind, 0) /\ kind \notin AllowedInProvisional
                /\ Consume(b, devices, 0) /\ UNCHANGED nomadCredit
  BY DEF GuardianSet, RecoveryStart, RecoveryCancel, NonceOnly,
         AllowedInProvisional, nomadVars
<1>2. ~InPartition
  BY <1>1, OnlyOnChain
<1> QED
  BY <1>1, <1>2 DEF Consume, Covered

\* Nor does any kind outside identity and credit.
LEMMA OtherKindsCovered ==
    ASSUME TypeOK, TypeOK', Covered, NEW b \in Presentable, UNCHANGED nomadCredit,
           MoneyKind(b) \/ EvidenceKind(b) \/ ChannelKind(b) \/ RegistryKind(b)
    PROVE  Covered'
BY OtherKindsKeepDevices, KeepsShareOf, SharesKept

\* Every transaction keeps the shares within the credit.
LEMMA TransactionCovered ==
    ASSUME TypeOK, TypeOK', Covered, NEW b \in Presentable,
           \/ MoneyKind(b) \/ IdentityKind(b) \/ EvidenceKind(b)
           \/ ChannelKind(b) \/ RegistryKind(b)
    PROVE  Covered'
<1>1. CASE MoneyKind(b)
  <2>1. \/ UNCHANGED nomadCredit
        \/ \E credit, margin \in Sums : NomadSet(b, credit, margin)
    BY <1>1 DEF MoneyKind, Transfer, Bond, Unbond, nomadVars
  <2> QED
    BY <1>1, <2>1, NomadSetCovered, OtherKindsCovered
<1>2. CASE IdentityKind(b)
  BY <1>2, DeviceAddCovered, DeviceRevokeCovered, RecoveryFinaliseCovered,
     GuardianKindsCovered DEF IdentityKind
<1>3. CASE EvidenceKind(b)
  <2>1. UNCHANGED nomadCredit
    BY <1>3 DEF EvidenceKind, AccountEquivocation, ValidatorEquivocation, nomadVars
  <2> QED
    BY <1>3, <2>1, OtherKindsCovered
<1>4. CASE ChannelKind(b)
  <2>1. UNCHANGED nomadCredit
    BY <1>4 DEF ChannelKind, PurseOpen, PurseCloseCooperative,
                PurseCloseUnilateral, PurseDispute, nomadVars
  <2> QED
    BY <1>4, <2>1, OtherKindsCovered
<1>5. CASE RegistryKind(b)
  <2>1. UNCHANGED nomadCredit
    BY <1>5 DEF RegistryKind, AssetCreate, AssetMint, AssetBurn, NameCommit,
                NameReveal, nomadVars
  <2> QED
    BY <1>5, <2>1, OtherKindsCovered
<1> QED
  BY <1>1, <1>2, <1>3, <1>4, <1>5

\* Covered is inductive in typed states.
LEMMA CoveredStep ==
    ASSUME TypeOK, TypeOK', Covered, [Next]_vars
    PROVE  Covered'
<1>1. ASSUME NEW c \in Context, BeginBlock(c) PROVE Covered'
  BY <1>1 DEF BeginBlock, nomadVars, Covered
<1>2. CASE SettleNomadCounters
  <2>1. \A a \in Accounts, d \in Keys :
           ShareOf(devices'[a][d]) = ShareOf(devices[a][d])
    BY <1>2, SettleKeepsDevice DEF ShareOf
  <2>2. UNCHANGED nomadCredit
    BY <1>2 DEF SettleNomadCounters, nomadVars
  <2> QED
    BY <2>1, <2>2, SharesKept
<1>3. ASSUME NEW p \in PurseIds, NEW n \in Tranches, Spend(p, n)
      PROVE  Covered'
  BY <1>3 DEF Spend, nomadVars, Covered
<1>4. ASSUME NEW b \in Presentable,
             \/ MoneyKind(b) \/ IdentityKind(b) \/ EvidenceKind(b)
             \/ ChannelKind(b) \/ RegistryKind(b)
      PROVE  Covered'
  BY <1>4, TransactionCovered
<1>5. CASE UNCHANGED vars
  BY <1>5 DEF vars, nomadVars, Covered
<1> QED
  BY <1>1, <1>2, <1>3, <1>4, <1>5 DEF Next

\* It holds at genesis.
LEMMA CoveredInit == LedgerInit => Covered
<1> SUFFICES ASSUME LedgerInit, NEW a \in Accounts
             PROVE  Shared(devices[a]) <= nomadCredit[a]
  BY DEF Covered
<1> DEFINE f == [d \in Keys |-> ShareOf(devices[a][d])]
           first == GenesisKey[a]
           device == [lane |-> 0, share |-> GenesisCredit, spent |-> 0]
<1>1. nomadCredit[a] = GenesisCredit /\ GenesisCredit \in Nat
  BY GenesisAssumption, AmountsAreNat DEF LedgerInit
<1>2. \A d \in Keys : devices[a][d] = IF d = first THEN device ELSE None
  BY DEF LedgerInit
<1>3. device # None /\ device.share = GenesisCredit
  BY GenesisAssumption, WidthAssumption, NoneIsNothing, NonceAssumption
     DEF Device, Amount, Lane
<1> HIDE DEF device
<1>4. \A d \in Keys : f[d] = IF d = first THEN GenesisCredit ELSE 0
  BY <1>2, <1>3 DEF ShareOf
<1> HIDE DEF f, first
<1>5. CASE first \in Keys
  <2>1. SumFunctionOnSet(f, Keys) = GenesisCredit
    BY <1>1, <1>4, <1>5, IdentifierAssumption, SumOfOne
  <2> QED
    BY <1>1, <2>1 DEF Shared, f
<1>6. CASE first \notin Keys
  <2>1. \A d \in Keys : f[d] = 0
    BY <1>4, <1>6
  <2>2. SumFunctionOnSet(f, Keys) = 0
    BY <2>1, IdentifierAssumption, SumZero
  <2> QED
    BY <1>1, <2>2 DEF Shared, f
<1> QED
  BY <1>5, <1>6

(* The shares of an account's devices never exceed its credit. *)
THEOREM SharesCovered == Spec => []SharesWithinCredit
<1>1. TypeOK /\ TypeOK' /\ Covered /\ [Next]_vars => Covered'
  BY CoveredStep
<1> QED
  BY <1>1, CoveredInit, CoveredIs, TypeCorrect, PTL DEF Spec

----------------------------------------------------------------------------
(* What leaves an account during a partition. *)

\* Written off a device is whatever left its account.
Exposed ==
    InPartition =>
        \A a \in Accounts :
            balance[a][VAN] + Spent(devices[a]) >= atOutage[a]

\* While the chain cannot finalise, three kinds get past the envelope.
LEMMA PartitionGrammar ==
    ASSUME InPartition, NEW b \in Presentable,
           \/ MoneyKind(b) \/ IdentityKind(b) \/ EvidenceKind(b)
           \/ ChannelKind(b) \/ RegistryKind(b)
    PROVE  \/ \E to \in Accounts, x \in Assets, n \in Sums : Transfer(b, to, x, n)
           \/ \E p \in PurseIds, a \in Accounts, x \in Assets,
                 deposit, value \in Sums : PurseOpen(b, p, a, x, deposit, value)
           \/ \E p \in PurseIds, m, n \in Sums : PurseCloseCooperative(b, p, m, n)
<1>1. ASSUME NEW kind, NEW native, Is(b, kind, native)
      PROVE  kind \in AllowedInProvisional
  BY <1>1, OnlyOnChain
<1>2. CASE MoneyKind(b)
  BY <1>1, <1>2
     DEF MoneyKind, Bond, Unbond, NomadSet, AllowedInProvisional
<1>3. ~IdentityKind(b)
  <2>1. ASSUME IdentityKind(b)
        PROVE  \E kind \in AllKinds \ AllowedInProvisional : Is(b, kind, 0)
    BY <2>1
       DEF IdentityKind, DeviceAdd, DeviceRevoke, GuardianSet, RecoveryStart,
           RecoveryCancel, RecoveryFinalise, AllKinds, AllowedInProvisional
  <2> QED
    BY <1>1, <2>1
<1>4. ~EvidenceKind(b)
  <2>1. ASSUME EvidenceKind(b)
        PROVE  \E kind \in AllKinds \ AllowedInProvisional : Is(b, kind, 0)
    BY <2>1
       DEF EvidenceKind, AccountEquivocation, ValidatorEquivocation,
           AllKinds, AllowedInProvisional
  <2> QED
    BY <1>1, <2>1
<1>5. CASE ChannelKind(b)
  BY <1>1, <1>5
     DEF ChannelKind, PurseCloseUnilateral, PurseDispute, AllowedInProvisional
<1>6. ~RegistryKind(b)
  BY <1>1
     DEF RegistryKind, AssetCreate, AssetMint, AssetBurn, NameCommit,
         NameReveal, AllowedInProvisional
<1> QED
  BY <1>2, <1>3, <1>4, <1>5, <1>6

\* Offline, a consumed nonce writes fee and outflow off the sender's device.
LEMMA ConsumeSpends ==
    ASSUME TypeOK, TypeOK', InPartition, NEW b \in Presentable, NEW kind,
           NEW native \in Nat, Is(b, kind, native), Consume(b, devices, native)
    PROVE  /\ Spent(devices'[b.account])
                = Spent(devices[b.account]) + b.fee + native
           /\ \A c \in Accounts \ {b.account} : devices'[c] = devices[c]
<1> DEFINE a == b.account
           d == b.device
           device == devices[a][d]
           more == [device EXCEPT !.spent = device.spent + Outflow(b, native)]
<1>1. /\ a \in Accounts /\ d \in Keys /\ b.fee \in Nat
      /\ device # None
  BY BodyType DEF Presentable, Authority, IsRegistered
<1>2. devices \in DeviceMaps /\ devices' \in DeviceMaps
  BY DEF TypeOK, DeviceMaps
<1>3. devices' = [devices EXCEPT ![a][d] = more]
  BY <1>1 DEF Consume
<1>4. device \in Device /\ device.spent \in Nat
  <2>1. device \in Device
    BY <1>1, <1>2 DEF DeviceMaps
  <2> QED
    BY <2>1, DeviceFields
<1>5. more.spent = device.spent + b.fee + native
  BY <1>1, <1>4 DEF Device, Outflow
<1> HIDE DEF more
<1>6. /\ devices'[a][d] = more
      /\ \A e \in Keys \ {d} : devices'[a][e] = devices[a][e]
      /\ \A c \in Accounts \ {a} : devices'[c] = devices[c]
  BY <1>1, <1>2, <1>3 DEF DeviceMaps
<1>7. SpentOf(devices'[a][d]) = SpentOf(devices[a][d]) + b.fee + native
      /\ SpentOf(devices[a][d]) \in Nat
  <2>1. more # None
    <3>1. Outflow(b, native) <= Remaining(device) /\ Outflow(b, native) \in Nat
      BY <1>1 DEF Is, Admits, NomadAllows, Outflow
    <3>2. more \in Device
      BY <1>4, <3>1, SpentStaysAmount DEF more
    <3> QED
      BY <3>2, NoneIsNothing
  <2> QED
    BY <1>1, <1>4, <1>5, <1>6, <2>1 DEF SpentOf
<1>8. devices[a] \in Rows /\ devices'[a] \in Rows
  BY <1>1, <1>2 DEF DeviceMaps, Rows
<1>9. Spent(devices'[a]) = Spent(devices[a]) - SpentOf(devices[a][d])
                             + SpentOf(devices'[a][d])
  BY <1>1, <1>6, <1>8, SpentChange
<1>10. Spent(devices[a]) \in Nat
  BY <1>8, RowWorth
<1> QED
  BY <1>1, <1>6, <1>7, <1>9, <1>10

\* A transaction whose sender loses no more than its fee and what the kind
\* declares, and that costs nobody else anything.
LEMMA MeteredExposed ==
    ASSUME TypeOK, TypeOK', Exposed, InPartition, NEW b \in Presentable,
           NEW kind, NEW native \in Nat, Is(b, kind, native),
           Consume(b, devices, native),
           UNCHANGED <<ctx, atOutage>>,
           balance'[b.account][VAN] >= balance[b.account][VAN] - b.fee - native,
           \A c \in Accounts \ {b.account} : balance'[c][VAN] >= balance[c][VAN]
    PROVE  Exposed'
<1> SUFFICES ASSUME NEW c \in Accounts
             PROVE  balance'[c][VAN] + Spent(devices'[c]) >= atOutage[c]
  BY DEF Exposed
<1>1. balance[c][VAN] + Spent(devices[c]) >= atOutage[c]
  BY DEF Exposed
<1>2. /\ balance[c][VAN] \in Nat /\ balance'[c][VAN] \in Nat
      /\ atOutage[c] \in Nat /\ b.fee \in Nat
      /\ Spent(devices[c]) \in Nat
  <2>1. /\ balance[c][VAN] \in Amount /\ balance'[c][VAN] \in Amount
        /\ atOutage[c] \in Amount
    BY AmountsAreNat DEF TypeOK
  <2> QED
    BY <2>1, AmountsAreNat, BodyType, RowOf, RowWorth
<1>3. CASE c = b.account
  <2>1. Spent(devices'[c]) = Spent(devices[c]) + b.fee + native
    BY <1>3, ConsumeSpends
  <2> QED
    BY <1>1, <1>2, <1>3, <2>1
<1>4. CASE c # b.account
  <2>1. devices'[c] = devices[c]
    BY <1>4, ConsumeSpends
  <2>2. balance'[c][VAN] >= balance[c][VAN]
    BY <1>4
  <2> QED
    BY <1>1, <1>2, <2>1, <2>2
<1> QED
  BY <1>3, <1>4

\* The fee costs its payer the fee at most, and nobody else anything.
LEMMA FeeFloor ==
    ASSUME TypeOK, NEW b \in Presentable, NEW kind, NEW native,
           Is(b, kind, native)
    PROVE  /\ AfterFee(b) \in Funds
           /\ AfterFee(b)[b.account][VAN] >= balance[b.account][VAN] - b.fee
           /\ \A c \in Accounts \ {b.account} :
                 AfterFee(b)[c][VAN] >= balance[c][VAN]
<1> DEFINE paid1 == Debit(balance, b.account, VAN, b.fee)
           provider == FeeSplit(b.fee).provider
<1>1. balance \in Funds /\ ctx.proposer \in Accounts /\ VAN \in Assets
  BY FundsType
<1>2. b.account \in Accounts /\ b.fee \in Nat /\ provider \in Nat
  BY BodyType, FeeSplitWhole
<1>3. CanDebit(balance, b.account, VAN, b.fee)
  BY DEF Is, Admits
<1>4. paid1 \in Funds
  BY <1>1, <1>2, <1>3, DebitType
<1>5. /\ paid1[b.account][VAN] = balance[b.account][VAN] - b.fee
      /\ \A c \in Accounts \ {b.account} : paid1[c][VAN] = balance[c][VAN]
  BY <1>1, <1>2 DEF Debit, Funds
<1>6. AfterFee(b) = Credit(paid1, ctx.proposer, VAN, provider)
  BY DEF AfterFee
<1> HIDE DEF paid1, provider
<1>7. \A c \in Accounts : AfterFee(b)[c][VAN] >= paid1[c][VAN]
  BY <1>1, <1>2, <1>4, <1>6 DEF Credit, Funds
<1>8. \A c \in Accounts : /\ AfterFee(b)[c][VAN] \in Nat
                          /\ paid1[c][VAN] \in Nat /\ balance[c][VAN] \in Nat
  <2>1. AfterFee(b) \in Funds
    BY AfterFeeType DEF Is
  <2> QED
    BY <1>1, <1>4, <2>1 DEF Funds
<1> QED
  BY <1>2, <1>5, <1>7, <1>8, AfterFeeType DEF Is

\* Debits cost their account what they say, credits cost nobody.
LEMMA DebitFloor ==
    ASSUME NEW funds \in Funds, NEW a \in Accounts, NEW x \in Assets,
           NEW n \in Nat, CanDebit(funds, a, x, n)
    PROVE  /\ Debit(funds, a, x, n)[a][VAN] >= funds[a][VAN] - Native(x, n)
           /\ \A c \in Accounts \ {a} :
                 Debit(funds, a, x, n)[c][VAN] >= funds[c][VAN]
BY AmountsAreNat DEF Debit, Funds, Native

\* A credit takes nothing from anybody.
LEMMA CreditFloor ==
    ASSUME NEW funds \in Funds, NEW a \in Accounts, NEW x \in Assets,
           NEW n \in Nat
    PROVE  \A c \in Accounts : Credit(funds, a, x, n)[c][VAN] >= funds[c][VAN]
BY AmountsAreNat DEF Credit, Funds

\* A transfer's outflow is native and declared.
LEMMA TransferExposed ==
    ASSUME TypeOK, Exposed, InPartition, NEW b \in Presentable,
           NEW to \in Accounts, NEW x \in Assets, NEW n \in Sums,
           Transfer(b, to, x, n)
    PROVE  Exposed'
<1> DEFINE funds == AfterFee(b)
           less == Debit(funds, b.account, x, n)
           more == Credit(less, to, x, n)
<1>1. /\ Is(b, "Transfer", Native(x, n)) /\ CanDebit(funds, b.account, x, n)
      /\ balance' = more /\ Consume(b, devices, Native(x, n))
      /\ UNCHANGED <<ctx, atOutage>>
  BY DEF Transfer, Collect, historyVars
<1>2. /\ n \in Nat /\ b.account \in Accounts /\ Native(x, n) \in Nat
      /\ b.fee \in Nat
  BY SumsAreNat, BodyType, NativeType
<1>3. TypeOK'
  BY TransferType
<1>4. /\ funds \in Funds
      /\ funds[b.account][VAN] >= balance[b.account][VAN] - b.fee
      /\ \A c \in Accounts \ {b.account} : funds[c][VAN] >= balance[c][VAN]
  BY <1>1, FeeFloor
<1> HIDE DEF funds
<1>5. /\ less \in Funds
      /\ less[b.account][VAN] >= funds[b.account][VAN] - Native(x, n)
      /\ \A c \in Accounts \ {b.account} : less[c][VAN] >= funds[c][VAN]
  BY <1>1, <1>2, <1>4, DebitType, DebitFloor
<1> HIDE DEF less
<1>6. more \in Funds /\ \A c \in Accounts : more[c][VAN] >= less[c][VAN]
  BY <1>2, <1>5, CreditType, CreditFloor
<1> HIDE DEF more
<1>7. \A c \in Accounts : /\ funds[c][VAN] \in Nat /\ less[c][VAN] \in Nat
                          /\ more[c][VAN] \in Nat /\ balance[c][VAN] \in Nat
  BY <1>4, <1>5, <1>6, MoneyTypes DEF Funds
<1>8. balance'[b.account][VAN]
        >= balance[b.account][VAN] - b.fee - Native(x, n)
  BY <1>1, <1>2, <1>4, <1>5, <1>6, <1>7
<1>9. \A c \in Accounts \ {b.account} : balance'[c][VAN] >= balance[c][VAN]
  BY <1>1, <1>4, <1>5, <1>6, <1>7
<1> QED
  BY <1>1, <1>2, <1>3, <1>8, <1>9, MeteredExposed

\* So is a channel's deposit.
LEMMA PurseOpenExposed ==
    ASSUME TypeOK, Exposed, InPartition, NEW b \in Presentable,
           NEW p \in PurseIds, NEW payee \in Accounts, NEW x \in Assets,
           NEW n \in Sums, NEW trancheValue \in Sums,
           PurseOpen(b, p, payee, x, n, trancheValue)
    PROVE  Exposed'
<1> DEFINE funds == AfterFee(b)
           less == Debit(funds, b.account, x, n)
<1>1. /\ Is(b, "PurseOpen", Native(x, n)) /\ CanDebit(funds, b.account, x, n)
      /\ balance' = less /\ Consume(b, devices, Native(x, n))
      /\ UNCHANGED <<ctx, atOutage>>
  BY DEF PurseOpen, Collect, historyVars
<1>2. /\ n \in Nat /\ b.account \in Accounts /\ Native(x, n) \in Nat
      /\ b.fee \in Nat
  BY SumsAreNat, BodyType, NativeType
<1>3. TypeOK'
  BY PurseOpenType
<1>4. /\ funds \in Funds
      /\ funds[b.account][VAN] >= balance[b.account][VAN] - b.fee
      /\ \A c \in Accounts \ {b.account} : funds[c][VAN] >= balance[c][VAN]
  BY <1>1, FeeFloor
<1> HIDE DEF funds
<1>5. /\ less \in Funds
      /\ less[b.account][VAN] >= funds[b.account][VAN] - Native(x, n)
      /\ \A c \in Accounts \ {b.account} : less[c][VAN] >= funds[c][VAN]
  BY <1>1, <1>2, <1>4, DebitType, DebitFloor
<1> HIDE DEF less
<1>6. \A c \in Accounts : /\ funds[c][VAN] \in Nat /\ less[c][VAN] \in Nat
                          /\ balance[c][VAN] \in Nat
  BY <1>4, <1>5, MoneyTypes DEF Funds
<1>7. balance'[b.account][VAN]
        >= balance[b.account][VAN] - b.fee - Native(x, n)
  BY <1>1, <1>2, <1>4, <1>5, <1>6
<1>8. \A c \in Accounts \ {b.account} : balance'[c][VAN] >= balance[c][VAN]
  BY <1>1, <1>4, <1>5, <1>6
<1> QED
  BY <1>1, <1>2, <1>3, <1>7, <1>8, MeteredExposed

\* A cooperative closure costs the submitter its fee.
LEMMA PurseCloseCooperativeExposed ==
    ASSUME TypeOK, Exposed, InPartition, NEW b \in Presentable,
           NEW p \in PurseIds, NEW m \in Sums, NEW n \in Sums,
           PurseCloseCooperative(b, p, m, n)
    PROVE  Exposed'
<1> DEFINE purse == purses[p]
           funds == AfterFee(b)
           some == Credit(funds, purse.payer, purse.asset, m)
           more == Credit(some, purse.payee, purse.asset, n)
<1>1. /\ Is(b, "PurseCloseCooperative", 0) /\ purse # None
      /\ balance' = more /\ Consume(b, devices, 0)
      /\ UNCHANGED <<ctx, atOutage>>
  BY DEF PurseCloseCooperative, CloseCooperative, IsOpen, Collect, NonceOnly,
         historyVars
<1>2. m \in Nat /\ n \in Nat /\ b.account \in Accounts /\ b.fee \in Nat
  BY SumsAreNat, BodyType
<1>3. TypeOK'
  BY PurseCloseCooperativeType
<1>4. /\ purse.payer \in Accounts /\ purse.payee \in Accounts
      /\ purse.asset \in Assets
  BY <1>1, MoneyTypes DEF Books, Purse
<1>5. /\ funds \in Funds
      /\ funds[b.account][VAN] >= balance[b.account][VAN] - b.fee
      /\ \A c \in Accounts \ {b.account} : funds[c][VAN] >= balance[c][VAN]
  BY <1>1, FeeFloor
<1> HIDE DEF funds, purse
<1>6. some \in Funds /\ \A c \in Accounts : some[c][VAN] >= funds[c][VAN]
  BY <1>2, <1>4, <1>5, CreditType, CreditFloor
<1> HIDE DEF some
<1>7. more \in Funds /\ \A c \in Accounts : more[c][VAN] >= some[c][VAN]
  BY <1>2, <1>4, <1>6, CreditType, CreditFloor
<1> HIDE DEF more
<1>8. \A c \in Accounts : /\ funds[c][VAN] \in Nat /\ some[c][VAN] \in Nat
                          /\ more[c][VAN] \in Nat /\ balance[c][VAN] \in Nat
  BY <1>5, <1>6, <1>7, MoneyTypes DEF Funds
<1>9. balance'[b.account][VAN] >= balance[b.account][VAN] - b.fee - 0
  BY <1>1, <1>2, <1>5, <1>6, <1>7, <1>8
<1>10. \A c \in Accounts \ {b.account} : balance'[c][VAN] >= balance[c][VAN]
  BY <1>1, <1>5, <1>6, <1>7, <1>8
<1> QED
  BY <1>1, <1>2, <1>3, <1>9, <1>10, MeteredExposed

\* No settlement takes anything from an account.
LEMMA PaidOutType ==
    ASSUME TypeOK, NEW a, NEW x, NEW now
    PROVE  PaidOut(a, x, now) \in Nat
<1> DEFINE T == {p \in Elapsed(now) : purses[p].asset = x}
           f == [p \in T |-> Share(p, a)]
<1>1. PaidOut(a, x, now) = SumFunctionOnSet(f, T)
  BY DEF PaidOut, Share, SumFunction
<1>2. IsFiniteSet(T)
  <2>1. T \subseteq PurseIds
    BY DEF Elapsed
  <2> QED
    BY <2>1, PurseAssumption, FS_Subset
<1>3. \A p \in T : f[p] \in Nat
  <2> SUFFICES ASSUME NEW p \in T PROVE Share(p, a) \in Nat
    OBVIOUS
  <2>1. p \in Elapsed(now)
    OBVIOUS
  <2>2. /\ Settlement(purses[p]).toPayer \in Nat
        /\ Settlement(purses[p]).toPayee \in Nat
    BY <2>1, ElapsedType, SettlementParts
  <2> QED
    BY <2>2 DEF Share
<1> HIDE DEF T, f
<1> QED
  BY <1>1, <1>2, <1>3, SumNat

\* A block takes nothing, and an outage starts with nothing spent.
LEMMA BeginBlockExposed ==
    ASSUME TypeOK, Exposed, NEW c \in Context, BeginBlock(c)
    PROVE  Exposed'
<1> SUFFICES ASSUME InPartition', NEW a \in Accounts
             PROVE  balance'[a][VAN] + Spent(devices'[a]) >= atOutage'[a]
  BY DEF Exposed
<1>1. /\ ctx' = c /\ UNCHANGED devices
      /\ atOutage'[a] = IF c.rung = Chain THEN 0
                        ELSE IF InPartition THEN atOutage[a] ELSE balance'[a][VAN]
      /\ balance'[a][VAN] = balance[a][VAN] + PaidOut(a, VAN, c.finalized)
  BY AmountsAreNat DEF BeginBlock, Credited
<1>2. c.rung # Chain
  BY <1>1 DEF InPartition, Provisional, Chain
<1>3. /\ balance[a][VAN] \in Nat /\ PaidOut(a, VAN, c.finalized) \in Nat
      /\ atOutage[a] \in Nat /\ Spent(devices[a]) \in Nat
  BY AmountsAreNat, PaidOutType, RowOf, RowWorth DEF TypeOK
<1>4. CASE InPartition
  <2>1. balance[a][VAN] + Spent(devices[a]) >= atOutage[a]
    BY <1>4 DEF Exposed
  <2> QED
    BY <1>1, <1>2, <1>3, <1>4, <2>1
<1>5. CASE ~InPartition
  BY <1>1, <1>2, <1>3, <1>5
<1> QED
  BY <1>4, <1>5

\* Exposed is inductive in typed states.
LEMMA ExposedStep ==
    ASSUME TypeOK, Exposed, [Next]_vars
    PROVE  Exposed'
<1>1. ASSUME NEW c \in Context, BeginBlock(c) PROVE Exposed'
  BY <1>1, BeginBlockExposed
<1>2. CASE SettleNomadCounters
  BY <1>2 DEF SettleNomadCounters, InPartition, Exposed
<1>3. ASSUME NEW p \in PurseIds, NEW n \in Tranches, Spend(p, n)
      PROVE  Exposed'
  BY <1>3 DEF Spend, feeVars, historyVars, InPartition, Exposed
<1>4. ASSUME NEW b \in Presentable,
             \/ MoneyKind(b) \/ IdentityKind(b) \/ EvidenceKind(b)
             \/ ChannelKind(b) \/ RegistryKind(b)
      PROVE  Exposed'
  <2>1. UNCHANGED ctx
    BY <1>4, MoneyFootprint, IdentityFootprint, EvidenceFootprint,
       ChannelFootprint, RegistryFootprint
  <2>2. CASE InPartition
    BY <1>4, <2>2, PartitionGrammar, TransferExposed, PurseOpenExposed,
       PurseCloseCooperativeExposed
  <2>3. CASE ~InPartition
    BY <2>1, <2>3 DEF InPartition, Exposed
  <2> QED
    BY <2>2, <2>3
<1>5. CASE UNCHANGED vars
  BY <1>5 DEF vars, feeVars, historyVars, InPartition, Exposed
<1> QED
  BY <1>1, <1>2, <1>3, <1>4, <1>5 DEF Next

\* It holds at genesis.
LEMMA ExposedInit == LedgerInit => Exposed
<1> SUFFICES ASSUME LedgerInit, InPartition, NEW a \in Accounts
             PROVE  balance[a][VAN] + Spent(devices[a]) >= atOutage[a]
  BY DEF Exposed
<1>1. Spent(devices[a]) \in Nat
  BY InitType, RowOf, RowWorth
<1>2. balance[a][VAN] = GenesisBalance /\ atOutage[a] = GenesisBalance
  BY AmountsAreNat DEF LedgerInit
<1>3. GenesisBalance \in Nat
  BY GenesisAssumption, AmountsAreNat
<1> QED
  BY <1>1, <1>2, <1>3

\* What was spent is within the shares, device by device and so in all.
LEMMA SpentIsShared ==
    ASSUME TypeOK, SpentWithinShare, NEW a \in Accounts
    PROVE  Spent(devices[a]) <= Shared(devices[a])
<1> DEFINE f == [d \in Keys |-> SpentOf(devices[a][d])]
           g == [d \in Keys |-> ShareOf(devices[a][d])]
<1>1. \A d \in Keys : f[d] \in Int /\ g[d] \in Int
  BY RowOf, DeviceWorth DEF Rows
<1>2. \A d \in Keys : f[d] <= g[d]
  BY DEF SpentWithinShare, Registered, IsRegistered, SpentOf, ShareOf
<1> HIDE DEF f, g
<1>3. SumFunctionOnSet(f, Keys) <= SumFunctionOnSet(g, Keys)
  BY <1>1, <1>2, IdentifierAssumption, SumMonotone
<1> QED
  BY <1>3 DEF Spent, Shared, f, g

(* The merchant's guarantee holds for every account, over every partition. *)
THEOREM ExposureBounded == Spec => []OfflineExposureBounded
<1>1. TypeOK /\ Exposed /\ Covered /\ SpentWithinShare => OfflineExposureBounded
  <2> SUFFICES ASSUME TypeOK, Exposed, Covered, SpentWithinShare, InPartition,
                      NEW a \in Accounts
               PROVE  balance[a][VAN] + nomadCredit[a] >= atOutage[a]
    BY DEF OfflineExposureBounded
  <2>1. balance[a][VAN] + Spent(devices[a]) >= atOutage[a]
    BY DEF Exposed
  <2>2. Spent(devices[a]) <= Shared(devices[a])
    BY SpentIsShared
  <2>3. Shared(devices[a]) <= nomadCredit[a]
    BY DEF Covered
  <2>4. /\ balance[a][VAN] \in Nat /\ nomadCredit[a] \in Nat
        /\ atOutage[a] \in Nat
        /\ Spent(devices[a]) \in Nat /\ Shared(devices[a]) \in Nat
    BY AmountsAreNat, RowOf, RowWorth DEF TypeOK
  <2> QED
    BY <2>1, <2>2, <2>3, <2>4
<1>2. TypeOK /\ TypeOK' /\ Covered /\ [Next]_vars => Covered'
  BY CoveredStep
<1>3. TypeOK /\ Exposed /\ [Next]_vars => Exposed'
  BY ExposedStep
<1> QED
  BY <1>1, <1>2, <1>3, CoveredInit, ExposedInit, SharesRespected, TypeCorrect,
     PTL DEF Spec

=============================================================================
