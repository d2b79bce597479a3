---------------------------- MODULE BlockHeader ----------------------------
(***************************************************************************)
(* What can be said of a block header alone, of two signed headers, and of *)
(* a header next to its parent.  A header's identifier holds the header    *)
(* (the hash is taken as injective, and never as zero), and the digest     *)
(* that is signed is the header; a signed header names who really signed   *)
(* it, or Absent.                                                          *)
(***************************************************************************)
EXTENDS Certificate, Emission

CONSTANTS
    EpochBlocks     \* blocks in an epoch

ASSUME EpochAssumption == EpochBlocks \in Nat \ {0}

Provisional == "provisional"
Chain == "chain"
Federal == "federal"
Rungs == {Provisional, Chain, Federal}

\* A header never claims the rung only other chains confer.
ClaimableByAHeader == {Provisional, Chain}

\* The identifier of a header, and the one that names no header.
Id(header) == <<header>>
ZeroId == <<>>

EpochOfHeight(height) == height \div EpochBlocks
BlockInEpoch(height) == height % EpochBlocks

SelfConsistent(header) ==
    /\ header.rung \in ClaimableByAHeader
    /\ header.finalized <= header.height
    /\ header.rung = Chain => header.finalized = header.height
    /\ (header.height = 0) <=> (header.parent = ZeroId)
    /\ header.emitted <= SupplyCap

\* The next height, the parent's link, a finalised tip that does not recede,
\* and an emission counter the schedule allows.
Follows(header, parent) ==
    /\ header.height = parent.height + 1
    /\ header.parent = Id(parent)
    /\ header.finalized >= parent.finalized
    /\ CounterAllowed(parent.emitted, header.emitted, EpochOfHeight(header.height))

\* On duty, registered, an allowed algorithm, and its own signature.
ProposerEntitled(signed, committee, validators) ==
    LET proposer == signed.header.proposer
    IN  /\ IsActiveAt(committee, proposer, BlockInEpoch(signed.header.height))
        /\ IsKnown(validators, proposer)
        /\ AlgorithmAllowed(proposer)
        /\ signed.signer = proposer

\* Faulty variant of IsEquivocation: one block presented twice will do.
IsEquivocationOrRepeat(accused, first, second) ==
    /\ first.header.height = second.header.height
    /\ {first.header.proposer, second.header.proposer} = {accused}
    /\ {first.signer, second.signer} = {accused}

\* Evidence against a validator: two headers of its own at one height, signed.
IsEquivocation(accused, first, second) ==
    /\ first.header.height = second.header.height
    /\ {first.header.proposer, second.header.proposer} = {accused}
    /\ first.header # second.header
    /\ {first.signer, second.signer} = {accused}

=============================================================================
