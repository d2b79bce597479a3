------------------------------ MODULE Emission ------------------------------
(***************************************************************************)
(* The halving schedule, the ceiling it puts on a header's counter of      *)
(* emitted supply, and the check of one counter against its parent's.      *)
(***************************************************************************)
EXTENDS Integers, FiniteSetsExt

CONSTANTS
    EpochsPerPeriod,    \* epochs between halvings
    FirstPeriod,        \* what the first period emits
    ShiftWidth,         \* halvings after which nothing is left
    SupplyCap           \* the protocol's cap on the supply

ASSUME EmissionAssumption ==
    /\ EpochsPerPeriod \in Nat \ {0} /\ ShiftWidth \in Nat
    /\ FirstPeriod \in Nat /\ SupplyCap \in Nat

PeriodOf(epoch) == epoch \div EpochsPerPeriod

\* What the first period emits, shifted right by the period.
Halved[period \in 0..ShiftWidth] ==
    IF period = 0 THEN FirstPeriod ELSE Halved[period - 1] \div 2

PeriodEmission(period) == IF period >= ShiftWidth THEN 0 ELSE Halved[period]

PerEpoch(period) == PeriodEmission(period) \div EpochsPerPeriod

EmissionForEpoch(epoch) == PerEpoch(PeriodOf(epoch))

\* Faulty variant of PermittedThrough: the running period counts in full.
PermittedThroughPeriod(epoch) ==
    SumFunction([p \in 0..PeriodOf(epoch) |-> PerEpoch(p) * EpochsPerPeriod])

\* The complete periods, and the epochs of the running one, this one included.
PermittedThrough(epoch) ==
    LET total == SumFunction([p \in 0..(PeriodOf(epoch) - 1) |-> PerEpoch(p) * EpochsPerPeriod])
                   + PerEpoch(PeriodOf(epoch)) * ((epoch % EpochsPerPeriod) + 1)
    IN  IF total <= SupplyCap THEN total ELSE SupplyCap

CounterAllowed(parentEmitted, claimed, epoch) ==
    /\ claimed >= parentEmitted
    /\ claimed <= SupplyCap
    /\ claimed <= PermittedThrough(epoch)

=============================================================================
