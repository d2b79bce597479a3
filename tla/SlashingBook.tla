---------------------------- MODULE SlashingBook ----------------------------
(***************************************************************************)
(* The equivocations already punished.  One offence per nonce slot of a    *)
(* device, and one per height of a validator, whichever evidence shows it. *)
(***************************************************************************)
EXTENDS Protocol

CONSTANTS
    MaxLane,            \* the largest lane index the integer type holds
    MaxSequence         \* the largest sequence number it holds

ASSUME NonceAssumption == MaxLane \in Nat /\ MaxSequence \in Nat

VARIABLES accountOffences, validatorOffences

slashingVars == <<accountOffences, validatorOffences>>

Lane == 0..MaxLane
Sequence == 0..MaxSequence

AccountOffence ==
    [account : Accounts, device : Keys, lane : Lane, sequence : Sequence]
ValidatorOffence == [validator : Accounts, height : Height]

SlashingTypeOK ==
    /\ accountOffences \subseteq AccountOffence
    /\ validatorOffences \subseteq ValidatorOffence

SlashingInit == accountOffences = {} /\ validatorOffences = {}

----------------------------------------------------------------------------

\* Faulty variant of RecordAccount: evidence may be presented again.
RecordAccountAgain(offence) ==
    /\ accountOffences' = accountOffences \cup {offence}
    /\ UNCHANGED validatorOffences

RecordAccount(offence) ==
    /\ offence \notin accountOffences
    /\ accountOffences' = accountOffences \cup {offence}
    /\ UNCHANGED validatorOffences

RecordValidator(offence) ==
    /\ offence \notin validatorOffences
    /\ validatorOffences' = validatorOffences \cup {offence}
    /\ UNCHANGED accountOffences

=============================================================================
