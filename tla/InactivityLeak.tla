-------------------------- MODULE InactivityLeak --------------------------
(***************************************************************************)
(* The inactivity leak: consecutive duties a member has missed, and the    *)
(* weight it still counts for while the chain cannot finalise.             *)
(***************************************************************************)
EXTENDS Committee

CONSTANTS
    LeakGrace,      \* missed duties that cost nothing
    LeakPeriod,     \* missed duties from full weight to none
    MaxMissed       \* the largest count the integer type holds

ASSUME LeakAssumption ==
    /\ LeakGrace \in Nat /\ LeakPeriod \in Nat \ {0}
    /\ MaxMissed \in Nat /\ LeakGrace + LeakPeriod <= MaxMissed

Counters == [Accounts -> 0..MaxMissed]

Cleared == [v \in Accounts |-> 0]

\* Faulty variant of Observe: a member off duty starts afresh.
ObserveForgetting(missed, onDuty, signers) ==
    [v \in Accounts |-> IF v \in onDuty \ signers THEN AtMost(missed[v] + 1, MaxMissed) ELSE 0]

\* Faulty variant of Observe: a member that signs keeps its count.
ObserveUnforgiving(missed, onDuty, signers) ==
    [v \in Accounts |->
        IF v \in onDuty \ signers THEN AtMost(missed[v] + 1, MaxMissed) ELSE missed[v]]

\* Faulty variant of Observe: the count never stops.
ObserveUnbounded(missed, onDuty, signers) ==
    [v \in Accounts |->
        IF v \notin onDuty THEN missed[v] ELSE IF v \in signers THEN 0 ELSE missed[v] + 1]

\* A block that failed to finalise: signers start afresh, the silent count on.
Observe(missed, onDuty, signers) ==
    [v \in Accounts |->
        IF v \notin onDuty THEN missed[v]
        ELSE IF v \in signers THEN 0
        ELSE AtMost(missed[v] + 1, MaxMissed)]

\* Faulty variant of Remaining: the grace counts against the member.
RemainingEarly(missed, v) == Minus(LeakPeriod, missed[v] + LeakGrace)

Remaining(missed, v) == Minus(LeakPeriod, Minus(missed[v], LeakGrace))

EffectiveWeight(missed, committee, v) ==
    Scaled(SeatWeight(committee, v), Remaining(missed, v), LeakPeriod)

EffectiveActiveWeight(missed, committee, slot) ==
    TotalWeight([v \in ActiveAt(committee, slot) |-> EffectiveWeight(missed, committee, v)])

EffectiveSignedWeight(missed, committee, slot, signers) ==
    TotalWeight([v \in ActiveAt(committee, slot) \cap signers |-> EffectiveWeight(missed, committee, v)])

RestoresFinality(missed, committee, slot, signers) ==
    ExceedsTwoThirds(EffectiveSignedWeight(missed, committee, slot, signers),
                     EffectiveActiveWeight(missed, committee, slot))

=============================================================================
