------------------------------ MODULE Protocol ------------------------------
(***************************************************************************)
(* What every part of the ledger shares: identifiers, fixed-width amounts  *)
(* and heights, the transaction kinds with the partition grammar, the      *)
(* contestation window, and the two splits of money.                       *)
(***************************************************************************)
EXTENDS Integers, FiniteSets, FiniteSetsExt

CONSTANTS
    Accounts,       \* account identifiers
    Keys,           \* device keys; a device identifier is the hash of its key
    AssetIds,       \* identifiers of local assets
    VAN,            \* the native asset (the `None` key of a balance map)
    None,           \* an absent optional value or map entry
    MaxAmount,      \* the largest amount the integer type holds
    MaxHeight       \* the largest height the integer type holds

ASSUME WidthAssumption == MaxAmount \in Nat /\ MaxHeight \in Nat

\* Identifiers are of fixed width, and none of them is the native asset.
ASSUME IdentifierAssumption ==
    IsFiniteSet(Accounts) /\ IsFiniteSet(Keys) /\ VAN \notin AssetIds

Assets == AssetIds \cup {VAN}
Amount == 0..MaxAmount
Height == 0..MaxHeight

Lesser(m, n) == IF m <= n THEN m ELSE n

----------------------------------------------------------------------------
(* Finality rungs a header may claim, and transaction kinds. *)

Provisional == "provisional"
Chain == "chain"
Rungs == {Provisional, Chain}

AllKinds ==
    {"Transfer", "NomadSet", "DeviceAdd", "DeviceRevoke", "Bond", "Unbond",
     "PurseOpen", "PurseCloseCooperative", "PurseCloseUnilateral",
     "PurseDispute", "AssetCreate", "AssetMint", "AssetBurn", "NameCommit",
     "NameReveal", "GuardianSet", "RecoveryStart", "RecoveryCancel",
     "RecoveryFinalise", "AccountEquivocation", "ValidatorEquivocation"}

\* The kinds that are grammatically legal while the chain cannot finalise.
AllowedInProvisional == {"Transfer", "PurseOpen", "PurseCloseCooperative"}

----------------------------------------------------------------------------
(* Contestation windows: a deadline that overflows never comes. *)

HasElapsed(openedAt, duration, now) ==
    /\ openedAt + duration <= MaxHeight
    /\ openedAt + duration <= now

\* saturating_add on heights.
HeightPlus(h, n) == Lesser(h + n, MaxHeight)

----------------------------------------------------------------------------
(* Money is split by flooring every part but the last, which is the rest. *)

\* Faulty variant of FeeSplit: the remainder is lost.
FeeSplitAllFloored(fee) ==
    [provider |-> (fee * 70) \div 100,
     pot      |-> (fee * 20) \div 100,
     burn     |-> (fee * 10) \div 100]

FeeSplit(fee) ==
    LET provider == (fee * 70) \div 100
        pot      == (fee * 20) \div 100
    IN  [provider |-> provider, pot |-> pot, burn |-> fee - provider - pot]

PenaltySplit(seized) ==
    [toDenouncer |-> seized \div 2, burned |-> seized - (seized \div 2)]

=============================================================================
