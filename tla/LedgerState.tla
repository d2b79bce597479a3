---------------------------- MODULE LedgerState ----------------------------
(***************************************************************************)
(* The ledger's own state, and what every transaction goes through before  *)
(* and after its kind takes effect: envelope, authority, offline credit,   *)
(* fee and nonce.  Ledger::apply works on a copy and commits on success,   *)
(* so a transaction that fails any check is simply no step at all.         *)
(*                                                                         *)
(* An account that is not in the map and an account with every field at    *)
(* its default are refused and accepted alike, so accounts are total       *)
(* functions over Accounts.  An absent deadline is the largest height.     *)
(***************************************************************************)
EXTENDS PurseBook, RecoveryBook, NameBook, AssetRegistry, SlashingBook

CONSTANTS
    Proposers,          \* who proposes blocks
    EquivocatingKeys,   \* the keys that have signed conflicting bodies
    GenesisKey,         \* Accounts -> the first device, or None
    GenesisBalance,     \* VAN of every account at genesis
    GenesisCredit,      \* offline credit of every account, all its device's
    GenesisGuardians,   \* Accounts -> SUBSET Accounts
    GenesisThreshold,
    FrozenInPartition,  \* whether provisional proposers leave the tip alone
    LastHeight          \* exploration bound on block heights

ASSUME GenesisAssumption ==
    /\ Proposers \subseteq Accounts
    /\ GenesisKey \in [Accounts -> Keys \cup {None}]
    /\ GenesisBalance \in Amount
    /\ GenesisCredit \in Amount
    /\ GenesisGuardians \in [Accounts -> SUBSET Accounts]
    /\ GenesisThreshold \in Nat
    /\ FrozenInPartition \in BOOLEAN
    /\ LastHeight \in Height
    /\ 1 <= MaxHeight /\ 1 <= MaxLane

VARIABLES
    ctx,                \* the block under way: BlockContext
    balance,            \* Accounts -> Assets -> Amount
    bonded,             \* Accounts -> Amount, the validator's stake
    nomadCredit, nomadMargin,           \* Accounts -> Amount
    devices,            \* Accounts -> Keys -> Device or None
    revoked,            \* Accounts -> SUBSET Keys
    nextLane,           \* Accounts -> Lane
    lanes,              \* Accounts -> Lane -> the next sequence
    guardians, threshold,               \* Accounts -> set, number
    burned, contextPot, feesCollected,  \* Amount
    (* History, read by properties only. *)
    laneHolders,        \* every <<account, lane, key>> there has been
    atOutage,           \* VAN balances when the partition began
    seizedMargin        \* all the margins ever seized

identityVars == <<revoked, nextLane, laneHolders>>
nomadVars == <<nomadCredit, nomadMargin>>
guardianVars == <<guardians, threshold>>
feeVars == <<balance, burned, contextPot, feesCollected>>
bookVars == <<purseVars, recoveries, nameVars, assets, slashingVars>>
historyVars == <<atOutage, seizedMargin>>
vars == <<ctx, feeVars, bonded, nomadVars, devices, identityVars, lanes,
          guardianVars, bookVars, historyVars>>

Device == [lane : Lane, share : Amount, spent : Amount]
Body ==
    [account : Accounts, device : Keys, lane : Lane, sequence : Sequence,
     fee : Amount, validUntil : Height]
Context ==
    [height : Height, finalized : Height, rung : Rungs, proposer : Accounts]

ASSUME NoneIsNothing == None \notin Device /\ None \notin Keys

IsRegistered(a, d) == devices[a][d] # None
Registered(a) == {d \in Keys : IsRegistered(a, d)}
InPartition == ctx.rung = Provisional

----------------------------------------------------------------------------

TypeOK ==
    /\ ctx \in Context
    /\ balance \in [Accounts -> [Assets -> Amount]]
    /\ bonded \in [Accounts -> Amount]
    /\ nomadCredit \in [Accounts -> Amount]
    /\ nomadMargin \in [Accounts -> Amount]
    /\ devices \in [Accounts -> [Keys -> Device \cup {None}]]
    /\ revoked \in [Accounts -> SUBSET Keys]
    /\ nextLane \in [Accounts -> Lane]
    /\ lanes \in [Accounts -> [Lane -> Sequence]]
    /\ guardians \in [Accounts -> SUBSET Accounts]
    /\ threshold \in [Accounts -> Nat]
    /\ burned \in Amount /\ contextPot \in Amount /\ feesCollected \in Amount
    /\ laneHolders \subseteq Accounts \X Lane \X Keys
    /\ atOutage \in [Accounts -> Amount]
    /\ seizedMargin \in Nat
    /\ PurseTypeOK /\ RecoveryTypeOK /\ NameTypeOK /\ AssetTypeOK
    /\ SlashingTypeOK

----------------------------------------------------------------------------
(* Blocks. *)

\* What a header may say of its place: heights follow each other, the
\* finalised tip never recedes, and a chain-rung block is its own tip.
LegalContext(c, height, finalized) ==
    /\ c.height = height
    /\ c.finalized \in finalized..height
    /\ c.rung = Chain => c.finalized = height
    /\ FrozenInPartition /\ c.rung = Provisional => c.finalized = finalized

Credited(now) ==
    [a \in Accounts |-> [x \in Assets |-> balance[a][x] + PaidOut(a, x, now)]]

\* Housekeeping comes before the block's transactions.  A credit that
\* overflows fails the whole block.
BeginBlock(c) ==
    /\ ctx.height < LastHeight
    /\ LegalContext(c, ctx.height + 1, ctx.finalized)
    /\ ctx' = c
    /\ balance' = Credited(c.finalized)
    /\ \A a \in Accounts, x \in Assets : balance'[a][x] \in Amount
    /\ SettleElapsed(c.finalized)
    /\ PruneExpired(c.finalized)
    /\ atOutage' = [a \in Accounts |->
            IF c.rung = Chain THEN 0
            ELSE IF InPartition THEN atOutage[a] ELSE balance'[a][VAN]]
    /\ UNCHANGED <<bonded, nomadVars, devices, identityVars, lanes,
                   guardianVars, burned, contextPot, feesCollected,
                   recoveries, assets, slashingVars, seizedMargin>>

\* For the caller to invoke once the chain finalises again.
SettleNomadCounters ==
    /\ ~InPartition
    /\ devices' = [a \in Accounts |-> [d \in Keys |->
            IF IsRegistered(a, d) THEN [devices[a][d] EXCEPT !.spent = 0]
            ELSE None]]
    /\ UNCHANGED <<ctx, feeVars, bonded, nomadVars, identityVars, lanes,
                   guardianVars, bookVars, historyVars>>

----------------------------------------------------------------------------
(* What every transaction must pass. *)

Envelope(b, kind) ==
    /\ ctx.finalized <= b.validUntil
    /\ InPartition => kind \in AllowedInProvisional

Authority(b) ==
    /\ b.device \notin revoked[b.account]
    /\ IsRegistered(b.account, b.device)
    /\ devices[b.account][b.device].lane = b.lane
    /\ lanes[b.account][b.lane] = b.sequence

Remaining(device) ==
    IF device.spent <= device.share THEN device.share - device.spent ELSE 0

\* Faulty variant of NomadAllows: the fee escapes the offline ceiling.
NomadAllowsFee(b, outflow) ==
    InPartition => outflow - b.fee <= Remaining(devices[b.account][b.device])

NomadAllows(b, outflow) ==
    InPartition => outflow <= Remaining(devices[b.account][b.device])

\* Faulty variant of CanDebit: the funds are not looked at.
CanDebitAny(funds, a, x, amount) == TRUE

CanDebit(funds, a, x, amount) == amount <= funds[a][x]
Debit(funds, a, x, amount) == [funds EXCEPT ![a][x] = @ - amount]
Credit(funds, a, x, amount) == [funds EXCEPT ![a][x] = @ + amount]

Outflow(b, native) == b.fee + native

\* The balances once the fee is paid: what the kind has to work with.
AfterFee(b) ==
    Credit(Debit(balance, b.account, VAN, b.fee),
           ctx.proposer, VAN, FeeSplit(b.fee).provider)

\* `native` is the VAN the kind takes out of the account besides the fee.
Admits(b, kind, native) ==
    /\ Envelope(b, kind)
    /\ Authority(b)
    /\ Outflow(b, native) <= MaxAmount
    /\ NomadAllows(b, Outflow(b, native))
    /\ CanDebit(balance, b.account, VAN, b.fee)
    /\ AfterFee(b)[ctx.proposer][VAN] <= MaxAmount

\* The transaction ends with these funds, having destroyed `penalty` more
\* than its fee's share.  Every addition is checked.
Collect(b, funds, penalty) ==
    /\ \A a \in Accounts, x \in Assets : funds[a][x] <= MaxAmount
    /\ balance' = funds
    /\ burned' = burned + FeeSplit(b.fee).burn + penalty
    /\ burned' <= MaxAmount
    /\ contextPot' = contextPot + FeeSplit(b.fee).pot
    /\ contextPot' <= MaxAmount
    /\ feesCollected' = feesCollected + b.fee
    /\ feesCollected' <= MaxAmount

\* Faulty variant of Consume: nothing is written off the device's share.
ConsumeUnmetered(b, registered, native) ==
    /\ lanes[b.account][b.lane] < MaxSequence
    /\ lanes' = [lanes EXCEPT ![b.account][b.lane] = @ + 1]
    /\ devices' = registered

\* The nonce is spent last, and offline the device's share with it, if the
\* transaction has left the device in place.
Consume(b, registered, native) ==
    /\ lanes[b.account][b.lane] < MaxSequence
    /\ lanes' = [lanes EXCEPT ![b.account][b.lane] = @ + 1]
    /\ devices' =
        IF InPartition /\ registered[b.account][b.device] # None
        THEN [registered EXCEPT ![b.account][b.device].spent =
                @ + Outflow(b, native)]
        ELSE registered

----------------------------------------------------------------------------

LedgerInit ==
    /\ ctx \in {c \in Context : c.proposer \in Proposers
                                  /\ LegalContext(c, 1, 0)}
    /\ balance = [a \in Accounts |->
            [x \in Assets |-> IF x = VAN THEN GenesisBalance ELSE 0]]
    /\ bonded = [a \in Accounts |-> 0]
    /\ nomadCredit = [a \in Accounts |-> GenesisCredit]
    /\ nomadMargin = [a \in Accounts |-> 0]
    /\ devices = [a \in Accounts |-> [d \in Keys |->
            IF d = GenesisKey[a]
            THEN [lane |-> 0, share |-> GenesisCredit, spent |-> 0]
            ELSE None]]
    /\ revoked = [a \in Accounts |-> {}]
    /\ nextLane = [a \in Accounts |-> IF GenesisKey[a] = None THEN 0 ELSE 1]
    /\ lanes = [a \in Accounts |-> [l \in Lane |-> 0]]
    /\ guardians = GenesisGuardians
    /\ threshold = [a \in Accounts |-> GenesisThreshold]
    /\ burned = 0 /\ contextPot = 0 /\ feesCollected = 0
    /\ laneHolders = {<<a, 0, GenesisKey[a]>> :
                        a \in {a \in Accounts : GenesisKey[a] # None}}
    /\ atOutage = [a \in Accounts |-> IF InPartition THEN GenesisBalance ELSE 0]
    /\ seizedMargin = 0
    /\ PurseInit /\ RecoveryInit /\ NameInit /\ AssetInit /\ SlashingInit

=============================================================================
