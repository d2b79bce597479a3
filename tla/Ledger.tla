------------------------------- MODULE Ledger -------------------------------
(***************************************************************************)
(* The ledger as a state machine: one action per transaction kind, blocks  *)
(* that begin with housekeeping, and payments that happen off the ledger.  *)
(* The transactions of a block are the steps between two BeginBlock steps. *)
(***************************************************************************)
EXTENDS LedgerState

CONSTANTS                   \* what the transactions of an instance carry
    Kinds,                  \* the kinds offered
    Fees, Sums,             \* fees, and every other amount
    Deadlines,              \* validity windows
    GuardianChoices, ThresholdChoices

ASSUME InputAssumption ==
    /\ Kinds \subseteq AllKinds
    /\ Fees \subseteq Amount /\ Sums \subseteq Amount
    /\ Deadlines \subseteq Height
    /\ GuardianChoices \subseteq SUBSET Accounts
    /\ ThresholdChoices \subseteq Nat

Bodies ==
    [account : Accounts, device : Keys, lane : Lane, sequence : Sequence,
     fee : Fees, validUntil : Deadlines]

\* The bodies worth trying: Admits refuses all the others.
Presentable == {b \in Bodies : Authority(b)}

Is(b, kind, native) == kind \in Kinds /\ Admits(b, kind, native)

\* The whole of a transaction that moves no money but its fee.
FeeOnly(b) == Collect(b, AfterFee(b), 0)
NonceOnly(b) == Consume(b, devices, 0)

Native(asset, amount) == IF asset = VAN THEN amount ELSE 0

----------------------------------------------------------------------------
(* Payments and stakes. *)

Transfer(b, to, asset, amount) ==
    LET funds == AfterFee(b) IN
    /\ Is(b, "Transfer", Native(asset, amount))
    /\ CanDebit(funds, b.account, asset, amount)
    /\ Collect(b, Credit(Debit(funds, b.account, asset, amount),
                         to, asset, amount), 0)
    /\ Consume(b, devices, Native(asset, amount))
    /\ UNCHANGED <<ctx, bonded, nomadVars, identityVars, guardianVars,
                   bookVars, historyVars>>

Bond(b, amount) ==
    LET funds == AfterFee(b) IN
    /\ Is(b, "Bond", amount)
    /\ CanDebit(funds, b.account, VAN, amount)
    /\ Collect(b, Debit(funds, b.account, VAN, amount), 0)
    /\ bonded' = [bonded EXCEPT ![b.account] = @ + amount]
    /\ bonded'[b.account] <= MaxAmount
    /\ Consume(b, devices, amount)
    /\ UNCHANGED <<ctx, nomadVars, identityVars, guardianVars, bookVars,
                   historyVars>>

Unbond(b, amount) ==
    /\ Is(b, "Unbond", 0)
    /\ amount <= bonded[b.account]
    /\ Collect(b, Credit(AfterFee(b), b.account, VAN, amount), 0)
    /\ bonded' = [bonded EXCEPT ![b.account] = @ - amount]
    /\ NonceOnly(b)
    /\ UNCHANGED <<ctx, nomadVars, identityVars, guardianVars, bookVars,
                   historyVars>>

----------------------------------------------------------------------------
(* Offline credit and devices. *)

Allocated(a) ==
    SumFunction([d \in Registered(a) |-> devices[a][d].share])

\* Faulty variant of FitsCredit: the other devices' shares are forgotten.
FitsCreditAlone(a, extra, credit) == extra <= credit

FitsCredit(a, extra, credit) ==
    Allocated(a) + extra <= MaxAmount /\ Allocated(a) + extra <= credit

NomadSet(b, credit, margin) ==
    /\ Is(b, "NomadSet", 0)
    /\ FitsCredit(b.account, 0, credit)
    /\ FeeOnly(b)
    /\ nomadCredit' = [nomadCredit EXCEPT ![b.account] = credit]
    /\ nomadMargin' = [nomadMargin EXCEPT ![b.account] = margin]
    /\ NonceOnly(b)
    /\ UNCHANGED <<ctx, bonded, identityVars, guardianVars, bookVars,
                   historyVars>>

\* Faulty variant of LaneIsFree: the high-water mark is not consulted.
LaneIsUnheld(a, lane) == \A d \in Registered(a) : devices[a][d].lane # lane

LaneIsFree(a, lane) ==
    /\ \A d \in Registered(a) : devices[a][d].lane # lane
    /\ lane >= nextLane[a]

\* Faulty variant of Install: the mark may leave its type.
InstallUnbounded(a, d, lane) ==
    /\ nextLane' = [nextLane EXCEPT ![a] = lane + 1]
    /\ laneHolders' = laneHolders \cup {<<a, lane, d>>}

\* Puts device d on a lane that was never used, and moves the mark past it.
Install(a, d, lane) ==
    /\ lane < MaxLane
    /\ nextLane' = [nextLane EXCEPT ![a] = lane + 1]
    /\ laneHolders' = laneHolders \cup {<<a, lane, d>>}

DeviceAdd(b, key, lane, share) ==
    /\ Is(b, "DeviceAdd", 0)
    /\ key \notin revoked[b.account]
    /\ ~IsRegistered(b.account, key)
    /\ LaneIsFree(b.account, lane)
    /\ FitsCredit(b.account, share, nomadCredit[b.account])
    /\ FeeOnly(b)
    /\ Install(b.account, key, lane)
    /\ Consume(b, [devices EXCEPT ![b.account][key] =
                     [lane |-> lane, share |-> share, spent |-> 0]], 0)
    /\ UNCHANGED <<ctx, bonded, nomadVars, revoked, guardianVars, bookVars,
                   historyVars>>

DeviceRevoke(b, device) ==
    /\ Is(b, "DeviceRevoke", 0)
    /\ IsRegistered(b.account, device)
    /\ FeeOnly(b)
    /\ revoked' = [revoked EXCEPT ![b.account] = @ \cup {device}]
    /\ Consume(b, [devices EXCEPT ![b.account][device] = None], 0)
    /\ UNCHANGED <<ctx, bonded, nomadVars, nextLane, laneHolders,
                   guardianVars, bookVars, historyVars>>

----------------------------------------------------------------------------
(* Social recovery. *)

\* Nothing relates the threshold to the number of guardians.
GuardianSet(b, chosen, quorum) ==
    /\ Is(b, "GuardianSet", 0)
    /\ FeeOnly(b)
    /\ guardians' = [guardians EXCEPT ![b.account] = chosen]
    /\ threshold' = [threshold EXCEPT ![b.account] = quorum]
    /\ NonceOnly(b)
    /\ UNCHANGED <<ctx, bonded, nomadVars, identityVars, bookVars, historyVars>>

RecoveryStart(b, target, newKey) ==
    /\ Is(b, "RecoveryStart", 0)
    /\ Approve(target, newKey, b.account, guardians[target], ctx.finalized)
    /\ FeeOnly(b)
    /\ NonceOnly(b)
    /\ UNCHANGED <<ctx, bonded, nomadVars, identityVars, guardianVars,
                   purseVars, nameVars, assets, slashingVars, historyVars>>

RecoveryCancel(b, target) ==
    /\ Is(b, "RecoveryCancel", 0)
    /\ target = b.account
    /\ Cancel(target)
    /\ FeeOnly(b)
    /\ NonceOnly(b)
    /\ UNCHANGED <<ctx, bonded, nomadVars, identityVars, guardianVars,
                   purseVars, nameVars, assets, slashingVars, historyVars>>

\* Every device is revoked, and the new key gets the next lane and no share.
RecoveryFinalise(b, target) ==
    LET newKey == recoveries[target].newKey
        lane == nextLane[target]
    IN
    /\ Is(b, "RecoveryFinalise", 0)
    /\ Finalise(target, threshold[target], ctx.finalized)
    /\ FeeOnly(b)
    /\ Install(target, newKey, lane)
    /\ revoked' = [revoked EXCEPT ![target] = @ \cup Registered(target)]
    /\ nomadCredit' = [nomadCredit EXCEPT ![target] = 0]
    /\ Consume(b, [devices EXCEPT ![target] =
                     [d \in Keys |->
                        IF d = newKey
                        THEN [lane |-> lane, share |-> 0, spent |-> 0]
                        ELSE None]], 0)
    /\ UNCHANGED <<ctx, bonded, nomadMargin, guardianVars, purseVars,
                   nameVars, assets, slashingVars, historyVars>>

----------------------------------------------------------------------------
(* Equivocation evidence: two bodies, or two headers, under one key. *)

\* Pays a seizure: half to the denouncer, half destroyed.
PayPenalty(b, seized) ==
    Collect(b, Credit(AfterFee(b), b.account, VAN,
                      PenaltySplit(seized).toDenouncer),
            PenaltySplit(seized).burned)

AccountEquivocation(b, accused, device, lane, sequence) ==
    LET seized == nomadMargin[accused] IN
    /\ Is(b, "AccountEquivocation", 0)
    /\ IsRegistered(accused, device)
    /\ device \in EquivocatingKeys
    /\ RecordAccount([account |-> accused, device |-> device,
                      lane |-> lane, sequence |-> sequence])
    /\ PayPenalty(b, seized)
    /\ nomadMargin' = [nomadMargin EXCEPT ![accused] = 0]
    /\ seizedMargin' = seizedMargin + seized
    /\ NonceOnly(b)
    /\ UNCHANGED <<ctx, bonded, nomadCredit, identityVars, guardianVars,
                   purseVars, recoveries, nameVars, assets, atOutage>>

ValidatorEquivocation(b, accused, height) ==
    /\ Is(b, "ValidatorEquivocation", 0)
    /\ Registered(accused) \cap EquivocatingKeys # {}
    /\ RecordValidator([validator |-> accused, height |-> height])
    /\ PayPenalty(b, bonded[accused])
    /\ bonded' = [bonded EXCEPT ![accused] = 0]
    /\ NonceOnly(b)
    /\ UNCHANGED <<ctx, nomadVars, identityVars, guardianVars, purseVars,
                   recoveries, nameVars, assets, historyVars>>

----------------------------------------------------------------------------
(* Channels. *)

PurseOpen(b, p, payee, asset, deposit, trancheValue) ==
    LET funds == AfterFee(b) IN
    /\ Is(b, "PurseOpen", Native(asset, deposit))
    /\ CanDebit(funds, b.account, asset, deposit)
    /\ OpenPurse(p, b.account, payee, asset, deposit, trancheValue)
    /\ Collect(b, Debit(funds, b.account, asset, deposit), 0)
    /\ Consume(b, devices, Native(asset, deposit))
    /\ UNCHANGED <<ctx, bonded, nomadVars, identityVars, guardianVars,
                   recoveries, nameVars, assets, slashingVars, historyVars>>

PurseCloseCooperative(b, p, toPayer, toPayee) ==
    LET purse == purses[p] IN
    /\ Is(b, "PurseCloseCooperative", 0)
    /\ CloseCooperative(p, b.account, toPayer, toPayee)
    /\ Collect(b, Credit(Credit(AfterFee(b), purse.payer, purse.asset, toPayer),
                         purse.payee, purse.asset, toPayee), 0)
    /\ NonceOnly(b)
    /\ UNCHANGED <<ctx, bonded, nomadVars, identityVars, guardianVars,
                   recoveries, nameVars, assets, slashingVars, historyVars>>

PurseCloseUnilateral(b, p, claimed) ==
    /\ Is(b, "PurseCloseUnilateral", 0)
    /\ BeginUnilateral(p, b.account, claimed, ctx.finalized)
    /\ FeeOnly(b)
    /\ NonceOnly(b)
    /\ UNCHANGED <<ctx, bonded, nomadVars, identityVars, guardianVars,
                   recoveries, nameVars, assets, slashingVars, historyVars>>

PurseDispute(b, p, claimed) ==
    /\ Is(b, "PurseDispute", 0)
    /\ Dispute(p, b.account, claimed)
    /\ FeeOnly(b)
    /\ NonceOnly(b)
    /\ UNCHANGED <<ctx, bonded, nomadVars, identityVars, guardianVars,
                   recoveries, nameVars, assets, slashingVars, historyVars>>

\* Between the two parties alone; no transaction, no rung, no fee.
Spend(p, n) ==
    /\ HandOverToken(p, n)
    /\ UNCHANGED <<ctx, feeVars, bonded, nomadVars, devices, identityVars,
                   lanes, guardianVars, recoveries, nameVars, assets,
                   slashingVars, historyVars>>

----------------------------------------------------------------------------
(* Local assets and names. *)

AssetCreate(b, x, ticker, reissuable) ==
    /\ Is(b, "AssetCreate", 0)
    /\ Create(x, b.account, ticker, reissuable)
    /\ FeeOnly(b)
    /\ NonceOnly(b)
    /\ UNCHANGED <<ctx, bonded, nomadVars, identityVars, guardianVars,
                   purseVars, recoveries, nameVars, slashingVars, historyVars>>

AssetMint(b, x, to, amount) ==
    /\ Is(b, "AssetMint", 0)
    /\ AuthoriseMint(x, b.account, amount)
    /\ Collect(b, Credit(AfterFee(b), to, x, amount), 0)
    /\ NonceOnly(b)
    /\ UNCHANGED <<ctx, bonded, nomadVars, identityVars, guardianVars,
                   purseVars, recoveries, nameVars, slashingVars, historyVars>>

AssetBurn(b, x, amount) ==
    LET funds == AfterFee(b) IN
    /\ Is(b, "AssetBurn", 0)
    /\ CanDebit(funds, b.account, x, amount)
    /\ RecordBurn(x, amount)
    /\ Collect(b, Debit(funds, b.account, x, amount), 0)
    /\ NonceOnly(b)
    /\ UNCHANGED <<ctx, bonded, nomadVars, identityVars, guardianVars,
                   purseVars, recoveries, nameVars, slashingVars, historyVars>>

NameCommit(b, digest) ==
    /\ Is(b, "NameCommit", 0)
    /\ Commit(digest, b.account, ctx.finalized)
    /\ FeeOnly(b)
    /\ NonceOnly(b)
    /\ UNCHANGED <<ctx, bonded, nomadVars, identityVars, guardianVars,
                   purseVars, recoveries, assets, slashingVars, historyVars>>

NameReveal(b, name, salt) ==
    /\ Is(b, "NameReveal", 0)
    /\ Reveal(name, salt, b.account, ctx.finalized)
    /\ FeeOnly(b)
    /\ NonceOnly(b)
    /\ UNCHANGED <<ctx, bonded, nomadVars, identityVars, guardianVars,
                   purseVars, recoveries, assets, slashingVars, historyVars>>

----------------------------------------------------------------------------

MoneyKind(b) ==
    \/ \E to \in Accounts, x \in Assets, n \in Sums : Transfer(b, to, x, n)
    \/ \E n \in Sums : Bond(b, n) \/ Unbond(b, n)
    \/ \E credit, margin \in Sums : NomadSet(b, credit, margin)

IdentityKind(b) ==
    \/ \E d \in Keys, l \in Lane, n \in Sums : DeviceAdd(b, d, l, n)
    \/ \E d \in Keys : DeviceRevoke(b, d)
    \/ \E s \in GuardianChoices, q \in ThresholdChoices : GuardianSet(b, s, q)
    \/ \E a \in Accounts, d \in Keys : RecoveryStart(b, a, d)
    \/ \E a \in Accounts : RecoveryCancel(b, a) \/ RecoveryFinalise(b, a)

EvidenceKind(b) ==
    \E a \in Accounts :
        \/ \E d \in Keys, l \in Lane, s \in Sequence :
                AccountEquivocation(b, a, d, l, s)
        \/ \E h \in 1..LastHeight : ValidatorEquivocation(b, a, h)

ChannelKind(b) ==
    \E p \in PurseIds :
        \/ \E a \in Accounts, x \in Assets, deposit, value \in Sums :
                PurseOpen(b, p, a, x, deposit, value)
        \/ \E m, n \in Sums : PurseCloseCooperative(b, p, m, n)
        \/ \E n \in Tranches :
                PurseCloseUnilateral(b, p, n) \/ PurseDispute(b, p, n)

RegistryKind(b) ==
    \/ \E x \in AssetIds :
        \/ \E t \in Tickers, open \in BOOLEAN : AssetCreate(b, x, t, open)
        \/ \E a \in Accounts, n \in Sums : AssetMint(b, x, a, n)
        \/ \E n \in Sums : AssetBurn(b, x, n)
    \/ \E d \in Digest : NameCommit(b, d)
    \/ \E n \in Names, s \in Salts : NameReveal(b, n, s)

Next ==
    \/ \E c \in Context : c.proposer \in Proposers /\ BeginBlock(c)
    \/ SettleNomadCounters
    \/ \E p \in PurseIds, n \in Tranches : Spend(p, n)
    \/ \E b \in Presentable :
        \/ MoneyKind(b) \/ IdentityKind(b) \/ EvidenceKind(b)
        \/ ChannelKind(b) \/ RegistryKind(b)

Spec == LedgerInit /\ [][Next]_vars

=============================================================================
