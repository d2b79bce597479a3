----------------------------- MODULE Committee -----------------------------
(***************************************************************************)
(* Validator candidates, their weight, the weighted draw of an epoch's     *)
(* committee and its duty roster.  Accounts are naturals, because the draw *)
(* walks them in ascending order; a seed is the numbers it yields.         *)
(***************************************************************************)
EXTENDS Integers, FiniteSets, SequencesExt

CONSTANTS
    Accounts,        \* account identifiers, a set of naturals
    Absent,          \* no record
    MultiplierOne,   \* the multiplier that means one
    MultiplierMax,   \* the cap on the service multiplier
    MaxWeight,       \* the largest weight the integer type holds
    Sampled,         \* seats in a committee
    Active           \* members on duty at a block

ASSUME CommitteeAssumption ==
    /\ Accounts \subseteq Nat /\ IsFiniteSet(Accounts)
    /\ MultiplierOne \in Nat \ {0} /\ MultiplierMax \in Nat /\ MultiplierOne <= MultiplierMax
    /\ MaxWeight \in Nat
    /\ Sampled \in Nat /\ Active \in Nat \ {0}

----------------------------------------------------------------------------
(* Weight. *)

AtMost(n, bound) == IF n <= bound THEN n ELSE bound
Minus(m, n) == IF m >= n THEN m - n ELSE 0

Weights == 0..MaxWeight

\* The elements of a finite set of naturals, ascending.
InOrder(S) ==
    [i \in 1..Cardinality(S) |-> CHOOSE n \in S : Cardinality({m \in S : m < n}) = i - 1]

\* A score outside the range is clamped, never refused.
Multiplier(score) == IF score < MultiplierOne THEN MultiplierOne ELSE AtMost(score, MultiplierMax)

WeightOf(bond, multiplier) == AtMost(bond * multiplier, MaxWeight) \div MultiplierOne

\* A sum that overflows counts for nothing.
TotalWeight(weight) ==
    LET sum == SumFunction(weight) IN IF sum <= MaxWeight THEN sum ELSE 0

Scaled(weight, numerator, denominator) ==
    IF denominator = 0 THEN 0 ELSE AtMost(weight * numerator, MaxWeight) \div denominator

\* Faulty variant of ExceedsTwoThirds: exactly two thirds is enough.
ReachesTwoThirds(part, total) ==
    3 * part <= MaxWeight /\ 2 * total <= MaxWeight /\ 3 * part >= 2 * total

ExceedsTwoThirds(part, total) ==
    3 * part <= MaxWeight /\ 2 * total <= MaxWeight /\ 3 * part > 2 * total

----------------------------------------------------------------------------
(* The validator set: a record per account, or none. *)

Validator(bond, score, root) ==
    [bond |-> bond, multiplier |-> Multiplier(score), root |-> root, lastReveal |-> root]

IsKnown(set, v) == set[v] # Absent
ValidatorWeight(set, v) == WeightOf(set[v].bond, set[v].multiplier)
IsEligible(set, v) == IsKnown(set, v) /\ ValidatorWeight(set, v) # 0
Eligible(set) == InOrder({v \in Accounts : IsEligible(set, v)})

----------------------------------------------------------------------------
(* The draw: weighted, without replacement. *)

\* The candidate whose cumulative weight first exceeds the point, or the last.
PickByCumulativeWeight(candidates, point) ==
    LET Cumulative(i) == SumFunction([j \in 1..i |-> candidates[j].weight])
        above == {i \in 1..Len(candidates) : Cumulative(i) > point}
    IN  IF above = {} THEN Len(candidates) ELSE Min(above)

\* Faulty variant of DrawOne: a chosen candidate stays in the list.
DrawOneReplacing(seed, drawn, round) ==
    IF drawn.candidates = <<>> \/ drawn.remaining = 0 THEN drawn
    ELSE LET i == PickByCumulativeWeight(drawn.candidates, seed.draw[round] % drawn.remaining)
         IN  [drawn EXCEPT !.members = Append(@, drawn.candidates[i])]

DrawOne(seed, drawn, round) ==
    IF drawn.candidates = <<>> \/ drawn.remaining = 0 THEN drawn
    ELSE LET i == PickByCumulativeWeight(drawn.candidates, seed.draw[round] % drawn.remaining)
             member == drawn.candidates[i]
         IN  [candidates |-> RemoveAt(drawn.candidates, i),
              remaining  |-> Minus(drawn.remaining, member.weight),
              members    |-> Append(drawn.members, member)]

\* Fisher-Yates over the seats, from the last down.
ActivationPermutation(size, seed) ==
    FoldLeft(LAMBDA order, i :
                 LET j == (seed.activate[i] % i) + 1
                 IN  [order EXCEPT ![i] = order[j], ![j] = order[i]],
             [i \in 1..size |-> i],
             [k \in 1..Minus(size, 1) |-> size + 1 - k])

Draw(set, seed) ==
    LET accounts == Eligible(set)
        candidates == [i \in 1..Len(accounts) |->
                          [account |-> accounts[i], weight |-> ValidatorWeight(set, accounts[i])]]
        seats == AtMost(Sampled, Len(candidates))
        drawn == FoldLeft(LAMBDA d, round : DrawOne(seed, d, round),
                          [candidates |-> candidates,
                           remaining  |-> TotalWeight([i \in 1..Len(candidates) |-> candidates[i].weight]),
                           members    |-> <<>>],
                          [round \in 1..seats |-> round])
    IN  [members |-> drawn.members,
         permutation |-> ActivationPermutation(Len(drawn.members), seed)]

----------------------------------------------------------------------------
(* The duty roster: a window over the permutation, one place on per block. *)

Seats(committee) == {member.account : member \in ToSet(committee.members)}

\* The weight an account was drawn with; frozen for the epoch.
SeatWeight(committee, account) ==
    (CHOOSE member \in ToSet(committee.members) : member.account = account).weight

ActiveAt(committee, block) ==
    LET size == Len(committee.members)
    IN  {committee.members[committee.permutation[((block + step) % size) + 1]].account :
            step \in 0..(AtMost(Active, size) - 1)}

ActiveWeightAt(committee, block) ==
    TotalWeight([v \in ActiveAt(committee, block) |-> SeatWeight(committee, v)])

IsActiveAt(committee, account, block) == account \in ActiveAt(committee, block)

=============================================================================
