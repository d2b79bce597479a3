# Vanargand in TLA+

Vanargand is a blockchain meant for networks that are often cut in two. A group
that loses contact keeps producing *provisional* blocks under a restricted
grammar, bounded by an offline credit each account declared beforehand; every
deadline that protects an absent party counts *finalised* blocks. This
directory models what the Rust crates implement today, in five groups that
each have a run or more:

* the **ledger**: every transaction kind and the registries behind it;
* **finality**: committee, certificates and the inactivity leak on the two sides of a cut;
* the **block pipeline**: nodes that propose, validate, lose and replay blocks;
* **channels**: payer, payee and watchtower off the ledger, as a refinement of an abstract promise;
* the **exchange** of data with parties nobody trusts: encodings, Merkle proofs, the delay function, addresses, evidence.

TLC checks them on small instances, and TLAPS proves what matters most.

To run, from this directory: `tlc -config MCNode.cfg MCNode`
and `tlapm NodeProofs.tla`. `PROJECT.json` lists the runs, the properties of
each, the source lines of every definition, the hazards the properties are
aimed at, and the places where documentation and code disagree.

## 1. The system

| Part (crate) | State | Operations | Modelled in |
|---|---|---|---|
| Ledger (`state/ledger.rs`) | accounts, four registries, convictions, burned / pot / fees | `apply` (21 kinds), `settle_elapsed_purses`, `prune_expired_commitments`, `settle_nomad_counters` | `Ledger`, `LedgerState` |
| Accounts (`state/account.rs`, `types/nonce.rs`) | balances, devices with a nonce lane and a share of the offline credit, revoked devices, guardians, bond | credit, debit, lane accept / consume | `LedgerState` |
| Channels (`state/purse_book.rs`, `bourse/purse.rs`) | open channels and their pending closures | open, close (two ways), dispute, settle | `PurseBook` |
| PayWord (`bourse/payword.rs`, `crypto/chain.rs`) | payer's hash chain, payee's cursor | spend, probe, accept, advance | `Channels`, `HashChain` |
| Watchtower (`bourse/watchtower.rs`) | best token per channel | observe, inspect, dispute, forget | `Channels` |
| Recoveries, names, assets, convictions (`state`) | one registry each | approve / cancel / finalise; commit / reveal / prune; create / mint / burn; record | `RecoveryBook`, `NameBook`, `AssetRegistry`, `SlashingBook` |
| Amounts and grammar (`types`) | none | checked arithmetic, fee split, partition grammar | `Protocol` |
| Header (`types/block.rs`) | none | self-consistency, link to the parent, entitlement, evidence of two headers | `BlockHeader` |
| Block pipeline (`node/validate.rs`, `propose.rs`) | none; drives ledger and validator set | `validate_and_apply`, `build` | `Node` |
| Committee, validators, weight (`consensus`) | validator records, an epoch's seats | draw, `active_at`, weights | `Committee` |
| Certificate (`consensus/certificate.rs`) | none | verify, reach a rung | `Certificate` |
| Inactivity leak (`consensus/leak.rs`) | missed duties per member | observe, decayed weight, `restores_finality`, clear | `InactivityLeak` |
| Emission (`consensus/emission.rs`) | none | schedule, `permitted_through`, counter check | `Emission` |
| Seed and delay function (`consensus/seed.rs`, `vdf.rs`) | checkpoints of a proof | mix, evaluate, check fully or sampled | `DelayProof` |
| Canonical codec and every object's encoding (`types/codec.rs` and the `Encode` impls) | none | encode, decode | `Codec`, `Wire` |
| Sparse Merkle tree (`state/smt.rs`, `keys.rs`) | leaves by key | insert, remove, root, prove, verify | `StateTree` |
| Merkle lists (`types/merkle.rs`) | none | root, prove, recompute | `MerkleList` |
| Addresses (`types/bech32.rs`, `address.rs`) | none | format, parse | `Address` |
| Signing of transactions (`types/tx.rs`, `crypto/sign.rs`) | none | sign, verify, account equivocation | `Evidence` |
| Hashing, KEM, derivation (`crypto`) | none | primitives | no: hashing is injective, signatures unforgeable |
| `cli`, `explorer`, `contracts`, `net`, `bridge`, `federation`, `msg`, `wallet`, `storage`, `archive` | none | none yet | no: documentation shells |

How they interact: the block processor (`validate.rs`, `run`) checks a header
against its parent, its proposer against the duty roster and its sealed reveal,
its certificate if it has one; it runs the ledger's **housekeeping** (settle every
channel whose window is over, prune expired commitments) at the header's
finalised height, then applies the transactions one by one to the same ledger,
and commits only if the resulting roots, counters and budget match.
`Ledger::apply` works on a copy and commits on success, so a refused transaction
is no step. Inside it, the kinds call into the registries; nothing calls back.
Off the ledger, payer, payee and watchtower exchange tokens and meet the ledger
only in closures and disputes. No component has threads, callbacks or
persistence; what is hard is the *order* of legal calls over a long time, the
two clocks (heights and finalised heights), and what the outside does to
messages, blocks and tokens between two calls.

Hard behaviours, and the properties each needs:

* **Partitions.** Heights go on, the finalised height stands still, most kinds
  become illegal, and offline credit is spent per device. An account must not
  shed more than it declared (`OfflineExposureBounded`, `SpentWithinShare`,
  `SharesWithinCredit`).
* **Windows.** Channels, recoveries and name commitments each have a deadline
  in finalised blocks that is tested at more than one place: `dispute` does not
  test it at all and relies on housekeeping (`NoElapsedPurseLingers`), reveal
  and pruning must agree to the block (`CommitmentsAreLive`), approvals must
  not restart a clock (`ClockNotRestarted`), disputes must not move one
  (`ClaimOnlyRises`).
* **Identity over time.** A nonce lane must never pass to a second device
  (`LaneHeldByOneDevice`), and nobody may lose an account without notice
  (`DevicesChangeWithNotice`).
* **Money in many places.** Balances, bonds, channels, the fire, the pot, each
  with rounding (`NativeConservation`, `AssetConservation`, `ClaimCovered`).
* **Two thirds of a moving total.** The duty window slides, seats keep the weight
  they were drawn with while the validator set changes, and the leak lowers weights
  on each side of a cut by itself: when can two blocks be final at once
  (`ConflictNeedsDoubleVoters`, `SplitOutlastsGrace`), can a certificate weigh more
  than who signed (`NoWeightFromNothing`), does finality come back (`FinalityReturns`).
* **Two programs that must agree.** What `build` makes, `run` must accept
  (`ProposalsValidate`); what is refused must leave no trace (`StateIsItsBranch`);
  a reveal is used once per branch (`RevealsOnlyAdvance`).
* **Unreliable delivery.** Tokens get lost, repeated and overtaken, and the payee's
  cursor must neither move on a refused token nor refuse a good one
  (`TokensNeverWasted`, `OnlyRevealedCanBeClaimed`, `KeepsItsPromise`).
* **Evidence.** The same crime must be punished once (`SeizureNeedsFreshOffence`),
  and only who committed it (`OnlyDoubleSignersAreConvicted`, `EvidenceNeedsTwoBlocks`).
* **Second spellings.** Two encodings of one object, two proofs of one claim, two
  addresses of one account (`CanonicalEncoding`, `ProofsTellTheTruth`,
  `OnlyListedIsIncluded`, `MistypedIsRefused`).

## 2. The model

    Protocol                          identifiers, widths, grammar, windows, splits
      PurseBook  RecoveryBook  NameBook  AssetRegistry  SlashingBook
        LedgerState                   accounts, blocks, what every transaction passes
          Ledger                      one action per kind; Next, Spec
            LedgerProperties          the promises that span several parts
              MCLedger                values for TLC
              LedgerProofs            types, devices, channels, names, evidence
                LedgerMoneyProofs     money, assets and the offline credit
    PurseBook + HashChain
      Channels                        payer, payee, tower, purse; implements Contestation
        MCChannels  ChannelsProofs
    Contestation                      what a channel promises the one who is paid
    Committee                         weight, draw, duty window
      Certificate  InactivityLeak
        Finality                      both sides of a cut, epoch after epoch
          MCFinality  FinalityProofs
      Certificate + Emission
        BlockHeader                   the checks of a header, evidence of two of them
          Node                        propose, validate, relay, restart
            MCNode  NodeProofs
    Codec
      Wire                            the schema of every object, and bytes altered on the way
    StateTree  MerkleList  DelayProof  Address  Evidence
      Exchange                        these five and Wire in one specification
        MCExchange  ExchangeProofs
    Wire
      WireProofs                      one encoding per object, for every schema
    SumTheorems                       sums and folds over finite sets, induction; used by
                                      LedgerMoneyProofs, FinalityProofs, NodeProofs,
                                      WireProofs, ExchangeProofs

### The ledger

Each registry is a module with its own variable and one action per method; the
actions of `Ledger` conjoin the registry's action with the money that moves and
leave the rest unchanged.

| Code | Model |
|---|---|
| `BTreeMap<AccountId, Account>` | one total function per field; an account absent from the map and one with every field at its default behave alike |
| `BTreeMap` entry that may be absent | value or `None` |
| `Amount`, heights, lanes, sequences | `0..MaxAmount`, `0..MaxHeight`, `0..MaxLane`, `0..MaxSequence`; every checked operation is a guard at the width |
| `DeviceId` | the key itself (hash taken as injective) |
| `PurseId`, `AssetId` | model values; a closed `PurseId` may be opened again and then stands for a new channel |
| a name commitment | the triple it hashes; anybody may commit any triple, a copied one included |
| a PayWord token | the number of tranches; `CanProve` says who can present it: the payer any, anybody else what left the payer |
| a signature | the body names a device the account has registered; equivocation evidence exists for the keys in `EquivocatingKeys` |
| `Err(...)` | the action is disabled |
| `BlockContext` | `ctx`, changed by `BeginBlock` only |

A **transaction** is `Is(b, kind, outflow)` (chain rung or grammar, validity
window, device, lane, sequence, offline share, fee), the kind's own guards and
effects, `Collect` (balances, with the fee's three parts) and `Consume` (the
nonce, and offline the device's share), as `apply_in_place` orders them.
`Presentable` narrows the bodies TLC enumerates to those `check_authority`
admits; `Admits` tests it again.

A **block** is a `BeginBlock` step and the transaction steps up to the next one.
Its header obeys `check_self_consistent` and the parent checks of `run`: next
height, finalised height neither receding nor ahead, a chain-rung block its own
tip. The code lets a provisional block raise the finalised height; the
documentation says a partition cannot. `FrozenInPartition` chooses: FALSE is the
code, TRUE the documented behaviour. The money and purses runs use FALSE, the
others TRUE to keep the number of blocks small. A block's transactions are
explored one at a time; its later rejection as a whole is the business of `Node`.

`SettleNomadCounters` may happen at any moment outside a partition or
never, because its caller does not exist yet.

History variables, read by properties only: `laneHolders` (who ever held a
lane), `atOutage` (balances when the partition began), `seizedMargin` (total of
seized margins), `paid` (tokens handed over, which also decides what can be
proved).

### Finality

`Committee` is `weight.rs`, `validators.rs` and `committee.rs` as operators: weights
truncated as the fixed-point code truncates them, a weighted draw without
replacement (`PickByCumulativeWeight`), the Fisher-Yates permutation of the seats
and the window `ActiveAt` that slides over it. A seed is the numbers it yields.
`Certificate` verifies votes in strictly ascending member order and weighs them;
`InactivityLeak` counts missed duties and decays weight after the grace.

`Finality` puts them on the two sides of a cut. A `Round` is one block per side: the
members a side hears vote (no choice: an honest member that is heard votes), the
certificate and the leak's own test are evaluated, and a side that is final again
clears its leak, as `leak.rs` asks its caller. The caller itself does not exist in
the code, so this composition is the documented one. `Environment` changes who hears
whom (an account heard on *both* sides signs both blocks), and lets candidates
leave and join in mid-epoch, which must not touch the seats drawn.

*Fairness*: weak fairness of "the slot passes", nothing else. The code produces
a block per slot with whoever is there and never waits for a quorum, which is the
design this justifies; no fairness is assumed of votes or reconnection.
`FinalityReturns` says "again and again", not "from then on", because clearing the
counters gives the silent members their whole weight back.

### The block pipeline

`Node` keeps, per node, exactly what `validate_and_apply` takes and returns: tip,
ledger, validators, and the rung the tip reached. The ledger is cut down to what
the pipeline can tell apart: transactions apply in a sequence, cost a unit, some
are outside the provisional grammar, and housekeeping pays out a channel *before*
the transactions, so that a block may contain a payment only the settlement
makes possible. `Build` and `IsValid` follow `propose.rs` and `validate.rs` check by
check; a state root is the ledger it stands for, a transaction root the bodies, so
roots agree exactly when what they cover does. A header's parent is the parent's
`Id`; the identifier of all zeros that genesis carries, `ZeroId`, is no header's. What a
halving period emits is a right shift in the code and `Halved` here, one halving
after another.

The fault model is the environment's: a published block reaches a node late, twice,
out of order, never, with another certificate, another body, forged signatures
(`Relayed`), or with a header some faulty proposer altered and signed (`Altered`);
and `Restart` throws a node back to genesis, because nothing is stored. `Propose` lets the
producer's caller supply any rung, finalised height, reveal and counter; four
things that only validation asks of that caller are named as preconditions in
`ProposalsValidate` (a reveal that advances, a finalised height not above the
height, a key of an allowed algorithm, a budget that does not overflow).

### Channels

`Channels` adds to `PurseBook` the people around it. A token is an index and the
link of the payer's chain it carries; `HashChain` has the chain as the number of
steps from the root, which is all that hashing an unbroken chain reveals. The set
`sent` is a network that loses, repeats and reorders; a dishonest payer may
`Mislabel` a link, or send bytes that are no link at all. `Accept` probes before it
moves the cursor; the tower's `Observe` does not verify, as in the code. What reaches it,
`Heard`, depends on a constant: with `Hearsay` false the tower is fed with what the payee
accepted, as its documentation assumes; with `Hearsay` true, with anything that was sent.

*Fairness*: finalised blocks keep coming, the tower reads what reaches it and
publishes a dispute it holds. One assumption is a guard, not fairness: `TowerInTime`
says the last block of a window does not come while a better token was handed over
and not disputed, unless the tower holds one that counts as better still and proves nothing
(`DisputeFails`): then it has done what it can. It is what `purse.rs` and `watchtower.rs` mean by somebody being awake for
the window; the run `window_runs_out` shows what happens without it.

`Contestation` states the promise without claims, tokens or towers: tranches are
earned, a channel closes, and is settled for at least their worth. `Promise`
instantiates it with the refinement mapping stage <- closure of the purse, earned <-
the payee's count, payout <- what the settlement paid. `KeepsItsPromise` is
`Promise!Spec`: every step of the four parties is a step or a stutter of the
promise, and every closure ends. It is checked and proved for a tower that listens to its
payee only; `tower_hearsay` shows that it needs one.

### Exchange

Six checks that one party makes on what another sends, each with its own little
world and never mixed: `dealing` is chosen once. In all of them a digest is the term
it was taken of, so only the *structure* the code hashes can go wrong.

* `Codec` and `Wire`: the codec as schemas (varints, options, ordered sets and maps,
  tags, bounded counts, and the nesting limit where the code counts it: options, sequences
  and sets do, maps and the option a body reads by hand do not) with scaled widths, and the schema of 27 protocol
  objects from accounts and blocks to proofs; bytes are replaced, inserted and
  dropped on the way. A schema names the schemas of its fields, so evidence may contain
  transactions that contain evidence; instead of operators that call themselves there are
  recursive functions by how deep one call may go: `Writing` is what `encode` has
  written after so many levels of calls, `Reads` what each `decode` reads at each position and depth.
  `IsValue` says a value is one of its type, which Rust's types and constructors
  ensure: numbers within their width, names that `Name::new` admits, sets and maps in
  their order. `SamplesAssumption` asks it of whatever is sent.
* `StateTree`: insertion and removal, root, proofs, and all the proofs that can be put
  together from two successive states.
* `MerkleList`: a block's transactions, proofs of any prefix cut at both ends, and
  inner digests passed off as transactions; and every list that is not longer, for its root.
* `DelayProof`: a prover that skips segments, starts from another mix or miscounts.
* `Address`: the exact Bech32m checksum; slips of the hand, capitals, and data
  crafted with a right checksum.
* `Evidence`: devices that sign on two chains and two accounts, sign again after a
  restart, or sign a second body for a slot.

## 3. What TLC checks

| Run | Instance | Shows |
|---|---|---|
| `ledger_money` | 2 accounts, 2 keys, heights to 3, sequences to 2, fee 7, sums 4 and 12, genesis credit 12 (one offline payment of 7 + 4 fits it, a second does not), 1 name, expiry 1 | where every VAN goes; shares and the offline ceiling; one seizure per crime; commitments and owners |
| `ledger_devices` | 3 accounts guarding one another (quorum 2), 3 keys, lanes to 2, heights to 3 | lanes, recovery clock and notice |
| `ledger_purses` | 2 accounts, 1 channel of up to 2 tranches, window 2, heights to 4, fee 3, sums 3 and 6, genesis credit 6, 1 asset | deposits, claims, disputes, settlement, offline ceiling, supplies |
| `finality` | 5 candidates, 4 seats, 3 on duty, grace 1, leak period 2, 5 blocks to an epoch, 2 seeds, 1 change of network or set (73 432 states) | fair roster, weight only from signers, what two final blocks of one slot take, return of finality |
| `node` | 2 nodes, 3 validators of whom 2 are on duty, 1 faulty, 1 of another algorithm, heights to 3, 3 published blocks, channel window 2, symmetric nodes (232 490 states) | state is its branch, reveals, proposals validate, emission, evidence |
| `channels` | 1 channel of 4 tranches, chain of 3 or 4 links, window 2, 1 mislabelled token, heights to 4 (444 356 states) | tokens, claims, refinement of `Contestation` with its liveness |
| `exchange` | varints of 2 payload bits, 27 objects with 1 edit or 2, tree of 5 keys of 3 bits, lists to 6, 3 segments and 2 samples of 7 values, 2-byte accounts with 1 slip, 2 chains, 2 accounts, 3 signatures (122 843 states) | the six checks refuse what they should and accept what they should |

Why the bounds suffice.

*Ledger.* Fee 7 splits as 4 / 1 / 2, so every floor of `FeeSplit` loses something.
Heights to 3 give a chain block, a partition and a reconnection in every order,
and a commitment revealed at its last height or pruned after it; heights to 4, a
window of 2 that ends inside or after a partition. Two accounts are payer and
payee, proposer and payer, accuser and accused (an account may also be both).
Three accounts are needed for a quorum of two guardians. Lanes to 2 allow a
device to be added, revoked and replaced with one lane to spare, so the largest
lane is reached. A tranche of 3 or 6 meets deposits of one, two or half a
tranche, and an offline credit of 6 holds exactly one opening of 3 with its fee.
Sequence bounds of 2 or 3 are the largest sequence the integer type holds,
reached in every run. The widths are small stand-ins for `u64` and `u32`; the
guards are the code's checked operations, so a behaviour that meets a bound is
one that meets an overflow in the code.

*Finality.* Three on duty of four seats make the window slide and leave one out; weights
2, 2, 2 and 10 (truncated from 10.5) make the windows with the heavy member certifiable by it
alone and those without it need all three, exactly two thirds included; grace 1 and
period 2 let a weight decay to nothing within an epoch of five blocks, and a member's counter
survive into the next epoch. Epochs follow each other without bound, so
`FinalityReturns` is checked on real cycles. One move is one reconnection, departure or entry;
all are needed for the split, since the members start on either side.

*Node.* Heights to 3 are four epochs of one block with the halving in their middle
(so the duty window does not slide here; it does in `finality`), and what an epoch emits is
floored in both periods; of the two validators on duty one signs any header with a number changed; three published blocks give a fork of two and a child,
either way round; a window of 2 closes, waits and settles within three heights. Two
nodes are all that agreement between holders of one tip needs.

*Channels.* Four tranches leave room for a token that arrives first, one overtaken and one lost; a
chain one link shorter than the capacity makes `spend` fail before the channel is
full; one mislabelled token is enough to desynchronise a cursor.

*Exchange.* The radix of 4 gives varints of up to three bytes whose last one is partly
legal; six leaves give odd levels twice; three key bits give siblings, a promoted leaf and an empty
side; schedules with one, two and three segments (and one the decoder refuses), two of which do not divide
the sample's range of seven, as few divide 2^32; twenty calls and three levels of nesting hold a block
with a transaction with evidence in it; two bytes leave the four padding bits that thirty-two do.

The ledger, channel and exchange instances end at their last height, length or edit, so their
configurations say `CHECK_DEADLOCK FALSE`; the finality and node instances never stop, and
deadlock is checked there.

Five more runs check what the documentation says and the code does not do; the
findings in `PROJECT.json` quote the lines.

| Run | Claim | What happens |
|---|---|---|
| `margin_minted` | no transition creates value | a margin was never debited; seizing it pays the denouncer new money |
| `revoked_returns` | a revoked device cannot be added back | a recovery registers a key that is revoked in the same step, or before; the account is then unusable |
| `payee_disputed` | a payee's closure is never disputed | a payee closes for less than it holds, disputes itself, and takes the whole deposit |
| `tower_hearsay` | a forged token costs the watchtower a fee and nobody else anything | it displaces the payee's token at the tower, the dispute fails, and the payee is paid too little |
| `window_runs_out` | no window runs out inside a partition | the first chain block after it counts all of its heights and settles before any dispute |

`NativeConservation` is stated with the seized margins added, so that everything
else about money is still checked.

Eleven further disagreements between a comment and its code were met while
modelling, each a fact about one place rather than a behaviour to search for:
the counterparty's signature of a cooperative closure is never verified;
a provisional block may raise the finalised height; `settle_nomad_counters` and `is_expired` have no caller; the "unreachable" name
mismatch is reachable; what the leak restores lasts one block, and its grace is
three times what its comment says; a chain-rung block needs no certificate; a
delay proof chooses its own length; promoted steps of a list proof bind nothing;
evidence is not tied to this chain. The models follow the code in each, and
`PROJECT.json` quotes both sides.

## 4. What is proved

TLAPS proves these theorems for every value of the constants that satisfies the
named assumptions, and for any set of transaction kinds offered. The assumptions
are about what the code's types and constants give: widths are naturals, windows
and epochs are positive, genesis is well typed, `None` and `Absent` are no value of the type they
stand beside (`NoneIsNothing` ... `LedgersAssumption`), and

* `IdentifierAssumption`, `PurseAssumption`: the accounts, keys, assets and channels that exist
  are finitely many. Sums over them, `total_native` among them, need it.
* `CommitteeAssumption`, `EpochAssumption` of `Finality`: a bond times the largest
  multiplier times the leak period fits a weight, so no weight saturates. In the
  code a bond has 64 bits and a weight 128. `SeedAssumption`: a seed yields naturals.
* `CodecAssumption`: every width is positive and fits the next, the limits fit a u64, and
  the last byte of the longest varint is neither always empty nor always full (2^63 < 2^64 < 2^70 in the code).
  `SamplesAssumption`: what is sent is of its type and within the size limit.
* `StateTreeAssumption`: records have keys of one depth and no two the same one.
* `DelayAssumption`: at least one sample is taken, of at least one value (`DEFAULT_SAMPLES` is 10).
* `EmissionAssumption`: the schedule's constants, the first period's emission included.
* `ValidatorsAssumption`, `CandidatesAssumption` of `Node`: validators in genesis have revealed nothing,
  and what a producer is offered are lists of transactions.

| Theorem | Property |
|---|---|
| `TypeCorrect` | `TypeOK` of the ledger |
| `NativeConserved` | `NativeConservation` |
| `AssetsConserved` | `AssetConservation` |
| `SharesCovered` | `SharesWithinCredit` |
| `ExposureBounded` | `OfflineExposureBounded` |
| `LanesNeverShared` | `LaneHeldByOneDevice` |
| `SharesRespected` | `SpentWithinShare` |
| `RecoveryClockStands` | `ClockNotRestarted` |
| `NoSilentTakeover` | `DevicesChangeWithNotice` |
| `ClaimsAreCovered` | `ClaimCovered` |
| `WindowsEndInHousekeeping` | `NoElapsedPurseLingers` |
| `ClaimsRise` | `ClaimOnlyRises` |
| `CommitmentsStayLive` | `CommitmentsAreLive` |
| `NamesKeepOwners` | `NameNeverReassigned` |
| `SeizuresAreFresh` | `SeizureNeedsFreshOffence` |
| `FinalityTypeCorrect` | `TypeOK` of `Finality` |
| `RosterFair` | `RosterIsFair` |
| `NoWeightFabricated` | `NoWeightFromNothing` |
| `VotesNeverOutweighSigners` | the same for certificates of any length, as a formula of its own |
| `ConflictsNeedDoubleVoters` | `ConflictNeedsDoubleVoters` |
| `LeakHelpsOnly` | `LeakNeverHinders` |
| `SplitsOutlastGrace` | `SplitOutlastsGrace` |
| `NodeTypeCorrect` | `TypeOK` of `Node` |
| `StateFollowsItsBranch` | `StateIsItsBranch` |
| `RevealsNeverRepeat` | `RevealsOnlyAdvance` |
| `ProposalsAreValid` | `ProposalsValidate` |
| `EmissionKeepsToSchedule` | `EmissionWithinSchedule` |
| `EvidenceIsFair` | `EvidenceNeedsTwoBlocks` |
| `TokensStayUsable` | `TokensNeverWasted` |
| `ClaimsNeedLinks` | `OnlyRevealedCanBeClaimed` |
| `PromiseIsKept` | `Contestation`'s `Init` and `[][Next]` under the mapping: the safety half of `KeepsItsPromise`, assuming `~Hearsay` |
| `ConvictionsAreDeserved` | `OnlyDoubleSignersAreConvicted` |
| `InclusionIsExact` | `OnlyListedIsIncluded` |
| `TreeProofsAreExact` | `ProofsTellTheTruth` |
| `EncodingIsCanonical` | `CanonicalEncoding` |
| `SamplingIsSound` | `SamplingCatchesSkippers` |
| `ExchangeIsSound` | these two, the three before and `OnlyDoubleSignersAreConvicted`, of the composed `Exchange` |
| `FullCheckIsExact` | the part of `SamplingCatchesSkippers` about `check_fully`, stated as a formula of its own |
| `SampledCheckIsExact` | which challenges the sampled check passes, and what every adopted seed has behind it |

**Induction.** Totals, draws and blocks are folds of the library, the schedule and
the line of headers recursive functions. The library's induction theorems cannot be used
(they take an operator as a parameter), so the proofs make their own. `SetInduction` in
`SumTheorems` is about a *family of subsets* instead of a predicate: a family that holds the empty set,
and every set whose reductions by one element it holds, has the whole set, because
the subsets outside it would have a smallest one and that is a contradiction. From it
come the laws of sums (`SumChange`: change one term and the sum changes by the difference;
sums are monotone, split and bound their terms) and of folds in general. A
recursive function is defined by a `CHOOSE`, which says nothing until something is known to
solve the recursion; so each has a lemma that a solution exists, by the
smallest number without one (`Climb`: a set that holds 0, and d whenever it holds d - 1, up to
a bound), and where it matters one that any two agree.

**Ledger.** `TypeOK` is inductive by itself; `LedgerProofs` has one lemma per kind, on
top of lemmas on the fee split, debit, credit, `Collect` and `Consume`. The
others start from it:

* *Footprints.* Each family of kinds leaves named variables alone
  (`MoneyFootprint` ... `SpendFootprint`), so a property of one registry needs
  only the few kinds that touch it. `OnChainKeepsDevices` and
  `IdentityKindsRegister` say the same of the devices: other kinds change at
  most the acting device's spent counter.
* *Lanes.* `LaneHeldByOneDevice` is not inductive: nothing in it keeps a fresh lane
  unheld. `LaneInv` adds that every lane ever held lies below the account's
  high-water mark, which is what the code's second check defends.
* *Claims.* `ClaimCovered` needs that a channel's capacity is worth no more than its
  deposit (`CapacityWorth`, a fact about floored division); `ClaimInv` carries
  it for every open channel. Then no claim overflows, so settlement skips
  none, which is what `NoElapsedPurseLingers` needs of a block, while a
  closure opened in the block cannot have elapsed because windows are positive.
* *Commitments.* Pruning at the block's height gives the invariant, and a
  commitment made in the block is at its start. `NamesKeepOwners` is an action
  property of the reveal's last guard.

**Money.** `Conserving` relates a step's two states: balances, deposits, bonds, fire and pot
together change by what was seized, and an asset's holdings by its supply. Each kind has a lemma that says
so, and the fee's three parts always add up to it (`FeeMoves`). The hard one is housekeeping,
which settles any set of channels at once: `PaidOutWhole` exchanges the sums, so that what
all accounts are paid is what all elapsed channels held, though an account may be payer in some and payee in
others. `MoneyInv` states the totals as they were at genesis.
For the offline credit, `Covered` says the same as `SharesWithinCredit` with a sum
the laws apply to. `OfflineExposureBounded` is a bound on what was lost since the
partition began, which says nothing of why; `Exposed` says what is kept: **balance plus
what the devices have spent never falls below the balance at the outage.**
`PartitionGrammar` leaves three kinds to look at, and spent shares are within
shares, which are within the credit.

**Finality.** `FinalityInv` has the types; that bonds entered properly; that the committee is one a
draw leaves (`Seated`: members distinct, seats with a weight the leak can scale, an order that is a
permutation, all that `RosterFair` asks); and, for each side's last block, what its flags say of the *weight* of its
voters among the members then on duty (`Settled`). `DrewStays` and `PermutationStays` show by
what one round of the draw and one swap keep that *every* seed gives such a committee, and
`DutyFacts` that the sliding window then covers members evenly. `Heft` is the weight of a set of members; a member's
weight is that of the draw, so it adds up over sets (`HeftGrows`, `HeftOverlaps`). Two sets with
two thirds of a weight each share a third of it (`QuorumsOverlap`): that is `ConflictNeedsDoubleVoters`, for any number of sides.
Within the grace the leak has decayed nothing (`EffectiveHeft`), so the leak's test is the certificate's, which gives `SplitOutlastsGrace`.
For certificates, ascending members are distinct members (`AscendingIsDistinct`), so the votes weigh no more than
their members (`VotesWeighTheirMembers`). The run tries certificates of a few votes; `VotesNeverOutweighSigners` is for any number.

**Node.** `NodeInv` says two things. A node is a `Follower` of its tip: the
headers behind the tip form a line to genesis (`Grounded`), the node's ledger is the replay of that line,
the validator set differs from genesis in reveals only, each the last of that line, and the tip's counter is within the
schedule. And a published block is `Built`: its header follows from its parent and its transactions as `build` fills it. Neither
mentions the order in which blocks arrived, which is why the order does not matter.
A block adds one header to the line (`LineGrows`) and one round to the replay (`ReplayGrows`).
`IncludeAllLeaves` is the agreement of the two programs: whatever candidates a producer
is offered, applying what it included, and nothing else, gives the ledger it put in the header.
`AcceptedFollows` is `validate.rs`, `ProposalIsBuilt` `propose.rs`.
For `EmissionWithinSchedule`, the ceiling is computed from whole periods and a remainder and the
schedule epoch by epoch; `CeilingIsSchedule` shows them equal, for which division and
remainder must go on together (`DivisionGoesOn`).

**Channels.** `TokensNeverWasted` says the cursor stands where the payee has
counted to; that it *can* move on is a fact about the tokens and the purse, so
`ChannelInv` carries four parts: the purse's types; `Lifecycle` (before the channel
opens nothing was sent, and a paid channel is gone); `TokenInv` (every link that
left the payer is counted in `paid`, and that lies within the capacity; what was handed
on is a link of the chain, and the tower holds what it heard); `PayeeInv` (cursor, count and best token agree and stay within `paid`). One
lemma per action keeps it. `AcceptableMeans` turns the probing of a chain into plain
comparison of numbers, and `ProvenIsLink` does the same for the root, so a provable
index is a link that left the payer. For the refinement, `SettlementPays` combines the
invariant with `TowerInTime`: what a tower that listens to its payee only holds proves its
index (`LinkProves`), so at the last block of the window the claim is at
least the best token handed over (`WindowRespectsHanded`), hence the payout at least the worth of what
was earned. Every other step is a stutter, an `Earn`, a `Close` or an `Agree`.

**Evidence.** The property counts the payments signed for a slot, and a count is awkward
to prove about. `TwoElements` says a finite set has more than one element exactly
when two differ; then `ConvictsDoubleSigners` and its converse show that the code's check convicts
exactly those with two different payments in one slot. `EvidenceInv` carries
that every transaction is signed by a device its account registered, that finitely
many were signed, and that every conviction has such a pair.

**Delay.** That n segments of L steps are n * L steps is an induction, and it is the
prover machine that makes it: `DelayInv` says every checkpoint is recorded as computed or made up
(`Recorded`), and that as long as none was made up the last one is exactly as far
on as it should be (`Arrived`). A made-up checkpoint has no steps behind it and
an honest segment at least one (`EqualSegments`), so the full check finds it (`SegmentPasses`),
and the sampled check passes exactly the challenges that miss it (`SampledCheckMeans`). An adopted
seed was sampled at least once, so some segment was computed (`SeedInv`).

**Inclusion.** Which paths are offered does not matter: `PathsBindLeaves` says that *any* steps
that end in a list's root start at one of its leaves. Digests are terms, so a step up has
one inverse, and walking down from the root meets only nodes of the levels, where a
promoted node is the one below and a pair's halves are both below it. That a root is the root of
one list needs more, because a promoted node is on two levels: reading two roots from the top,
one list might promote where the other hashes. A digest's `Spine` counts the nodes down its left edge.
Every node of level d has a spine of d but the last, whose spine may be shorter
(`LevelsAreTall`). So both lists have the same number of levels (`RootIsTall`), and a promoted
node is never the parent of two of its level (`PromotedIsLower`): folding is one to one (`FoldIsOneToOne`),
level by level (`RootsBindLists`).

**State tree.** `SubtreeIs` gives a subtree's root by what is left under it: nothing, one entry, or two
halves. Those three digests are never equal, and a subtree with an entry never looks empty (`SubtreeFilled`);
hence whatever verifies retraces the tree's own subtrees from the root down (`Descend`,
`WalkDown`), and its terminal must be what the tree has where the path ends (`VerifiedIsHeld`):
for any siblings and any terminal, not only those of the run. `WalkAlong` is the way up for
honest siblings, and with it `HeldIsVerified`. Together they give the rest: if two
contents had one root, the honest proofs of one would verify against the other, so both
hold the same of every key (`RootsBindContents`).

**Encoding.** `WireInv` only says that bytes travel, and that they are the encoding of what was sent until they are
altered; the work is in the two facts about `Decoded` it rests on, for any byte string and any
schemas whose forms name schemas (`WellNamed`; `SchemaIsWellNamed` that the protocol's do).

* *Numbers.* `VarintIsCanonical`: whatever sequence of bytes ends in a byte below the radix, and that not zero if it
  is not alone, is the varint of what its digits add up to. `ConsCanonical` takes one byte off at a time; the
  decoder's width is enough for every u64 (`VarintLength`), so `VarintRead` and `VarintIsRead` are each other's converse.
* *Writing.* `Spells(types, parts, k, s)` says k levels of calls turn the parts into the bytes s. Parts written side by side
  are written one after the other (`WriteAllConcat`), so spellings join (`SpellsConcat`) and one call
  costs one level (`SpellsCall`).
* *What decodes is the encoding of what was decoded.* `ReadsSound`, by how many calls deep a decode goes: whatever it reads
  between two positions spells the bytes between them. `ReadOneSound` is the step, a case per form;
  lists are read by `ReadParts` (`PartsSpell`). Hence `DecodedIsWritten`.
* *What is written decodes to itself.* `ReadsOnce`: at one position a decode reads one value at most.
  `AdmittedComplete`, by the same induction: where the encoding of a value of its type stands, that
  value is read (`ReadOneComplete`; `PartsComplete` for lists, the order of whose elements the decoder
  checks on the very bytes `InOrder` compares). Hence `WrittenIsDecoded`.

**Sampling.** `SamplingIsSound` counts. A challenge passes a whole proof exactly when each of its samples
falls on a head whose segment was computed (`Passing`), so the challenges that pass are the functions from samples
to such heads, and k choices among m are m to the power k: one more sample pairs every choice so
far with a head (`ChoicesCount`, an induction whose step is a bijection, `OneToOne`). Of a multiple of n heads, each
remainder has its share (`RemaindersCount`); between two multiples, a share rounded
down or up (`RemaindersBetween`). What `vdf.rs` calls (1 - s/n)^k is that power over Heads^k.

**The exchange.** The checks share no variable, so every step of `Exchange` is a step of one and a
stutter of the others (`ChecksApart`), and each theorem carries over: `ExchangeIsSound`.

Only model-checked, and why:

* the liveness half of `KeepsItsPromise` and `FinalityReturns`: liveness under fairness
  is outside the prover;
* `MistypedIsRefused`: that a slip never turns one address into another is not true of every identifier and every
  number of slips, only of as few as the checksum's distance allows, which is bit arithmetic over
  particular constants and nothing a general proof could rest on. The run tries every single slip of its instance.

## 5. Not modelled, and what could follow

Left out for good: hexadecimal forms, wording of errors, key exchange and key
derivation, the hash and signature primitives, the shells of future crates, the
generator of test vectors, and two functions nothing in the pipeline calls:
`check_self_consistent` of a transaction (the model admits self-transfers, thresholds
of zero and so on, as the pipeline does) and the split of an epoch's emission.

Not composed, because the code does not compose it: who calls the leak, when the seed
of an epoch replaces the last one, how the ledger's bond reaches the validator
set, and who pays the emission out. `Finality` and `Node` therefore each hold the part the
code connects, and the hazards in `PROJECT.json` that these gaps leave open say so.

Next, in this order:

1. Several channels under one watchtower, and the seed's adoption and the committee's
   draw in one epoch cycle, once the code has that cycle.
2. A replica of the whole `Ledger` on each side of a cut, with the reconnection's choice between
   branches, once the code has a fork choice.
