------------------------------ MODULE Finality ------------------------------
(***************************************************************************)
(* How blocks become final on the two sides of a network that may be cut.  *)
(* Both sides hold the epoch's committee, drawn before the cut, and        *)
(* produce a block per slot; the members each side hears vote for its      *)
(* block.  A block without two thirds feeds that side's leak, and the leak *)
(* is cleared when the side is final again, as leak.rs asks its caller.    *)
(* A member heard on both sides signs both blocks.                         *)
(***************************************************************************)
EXTENDS Certificate, InactivityLeak

CONSTANTS
    Sides,          \* the sides of the cut; a block is named by its side
    Seeds,          \* epoch seeds: draw and activate give its numbers
    EpochBlocks,    \* blocks in an epoch
    Genesis,        \* the validator set at the start
    Bonds,          \* bonds a candidate may place again
    MaxMoves        \* bound: changes of the network and of the validator set

\* Bonds whose weight, scaled by the leak, is never clamped: a bond takes 64
\* bits and a weight 128 (weight.rs).
Affordable == {n \in Nat : n * MultiplierMax * LeakPeriod <= MaxWeight}

\* Distinct sides, so that a signature for one is not a signature for another.
ASSUME SidesAssumption == Absent \notin Sides /\ \E s, t \in Sides : s # t

ASSUME SeedAssumption ==
    \A seed \in Seeds : \A i \in 1..Sampled : seed.draw[i] \in Nat /\ seed.activate[i] \in Nat

ASSUME EpochAssumption ==
    /\ EpochBlocks \in Nat \ {0} /\ MaxMoves \in Nat
    /\ Bonds \subseteq Affordable
    /\ DOMAIN Genesis = Accounts
    /\ \A v \in Accounts : IsKnown(Genesis, v) =>
          Genesis[v].bond \in Affordable /\ Genesis[v].multiplier \in MultiplierOne..MultiplierMax

VARIABLES
    validators,     \* the validator set
    committee,      \* drawn at the start of the epoch
    slot,           \* block_in_epoch of the next block
    heard,          \* the sides that hear each account
    missed,         \* the leak of each side
    last,           \* each side's last block: voters, both finality tests, longest silence
    moves           \* changes so far

vars == <<validators, committee, slot, heard, missed, last, moves>>

NoBlock == [voters |-> {}, certified |-> FALSE, restored |-> FALSE, silence |-> 0]

IsFinal(block) == block.certified \/ block.restored

TypeOK ==
    /\ slot \in 0..EpochBlocks
    /\ heard \in [Accounts -> SUBSET Sides]
    /\ missed \in [Sides -> Counters]
    /\ \A s \in Sides : last[s].voters \subseteq Accounts /\ last[s].silence \in 0..MaxMissed
    /\ moves \in 0..MaxMoves
    /\ \A seat \in ToSet(committee.members) : seat.weight \in Weights \ {0}

Init ==
    /\ validators = Genesis
    /\ committee \in {Draw(Genesis, seed) : seed \in Seeds}
    /\ slot = 0
    /\ heard \in [Accounts -> {{s} : s \in Sides}]
    /\ missed = [s \in Sides |-> Cleared]
    /\ last = [s \in Sides |-> NoBlock]
    /\ moves = 0

----------------------------------------------------------------------------

\* Members a side hears and whose votes can count.
CanVote(s, v) == s \in heard[v] /\ IsKnown(validators, v) /\ AlgorithmAllowed(v)

\* A side's block of this slot, its certificate, and what its leak then says.
BlockOf(s, duty) ==
    LET voters   == {v \in duty : CanVote(s, v)}
        observed == Observe(missed[s], duty, voters)
    IN  [voters |-> voters,
         certified |-> Finalises(CertificateOf(voters, s), s, committee, slot, validators),
         restored |-> RestoresFinality(observed, committee, slot, voters),
         silence |-> Max({0} \cup {observed[v] : v \in Accounts})]

\* One block on every side; a side that is final again clears its leak.
Round ==
    /\ slot < EpochBlocks
    /\ LET duty   == ActiveAt(committee, slot)
           blocks == [s \in Sides |-> BlockOf(s, duty)]
       IN  /\ last' = blocks
           /\ missed' = [s \in Sides |->
                 IF IsFinal(blocks[s]) THEN Cleared
                 ELSE Observe(missed[s], duty, blocks[s].voters)]
    /\ slot' = slot + 1
    /\ UNCHANGED <<validators, committee, heard, moves>>

\* A new epoch draws a new committee from the set as it is now.
NewEpoch ==
    /\ slot = EpochBlocks
    /\ \E seed \in Seeds : committee' = Draw(validators, seed)
    /\ slot' = 0
    /\ last' = [s \in Sides |-> NoBlock]
    /\ UNCHANGED <<validators, heard, missed, moves>>

Move == moves < MaxMoves /\ moves' = moves + 1

\* The network changes: an account is heard by other sides than before.
Reconnect(v) ==
    /\ Move
    /\ \E where \in SUBSET Sides \ {heard[v]} : heard' = [heard EXCEPT ![v] = where]
    /\ UNCHANGED <<validators, committee, slot, missed, last>>

\* A candidate leaves the set, at any moment of the epoch.
Leave(v) ==
    /\ Move
    /\ IsKnown(validators, v)
    /\ validators' = [validators EXCEPT ![v] = Absent]
    /\ UNCHANGED <<committee, slot, heard, missed, last>>

\* A candidate enters the set or replaces its record; its seat keeps its weight.
Join(v) ==
    /\ Move
    /\ \E bond \in Bonds : validators' = [validators EXCEPT ![v] = Validator(bond, MultiplierOne, v)]
    /\ UNCHANGED <<committee, slot, heard, missed, last>>

Environment == \E v \in Accounts : Reconnect(v) \/ Leave(v) \/ Join(v)

Next == Round \/ NewEpoch \/ Environment

\* The slot moves on: a step of Round, or of NewEpoch at the epoch's end, one of
\* which is always possible.
SlotPasses == slot' = (slot + 1) % (EpochBlocks + 1)

\* Blocks keep coming on every side: nothing waits for a quorum.
Fairness == WF_slot(SlotPasses)

Spec == Init /\ [][Next]_vars /\ Fairness

----------------------------------------------------------------------------
(* What the committee, the certificate and the leak promise together. *)

\* The draw seats nobody twice, and the sliding window fills every duty with
\* distinct members and reaches every seat within the epoch (committee.rs).
RosterIsFair ==
    slot = 0 =>
    LET size == Len(committee.members)
    IN  /\ Cardinality(Seats(committee)) = size
        /\ \A b \in 0..EpochBlocks : Cardinality(ActiveAt(committee, b)) = AtMost(Active, size)
        /\ \A v \in Seats(committee) :
              size <= EpochBlocks => \E b \in 0..(EpochBlocks - 1) : IsActiveAt(committee, v, b)

\* The votes anybody can put into a certificate for side s: true ones, and
\* forgeries in the name of members that did not sign its block.
Presentable(s) ==
    {[i \in 1..n |-> Vote(w[i], IF w[i] \in last[s].voters THEN s ELSE Absent)] :
        w \in [1..2 -> Accounts], n \in 0..2}

\* Whatever votes a certificate is put together from, repeated, forged, of
\* members off duty or gone from the set, it never weighs more than the
\* distinct members that signed the block (Certificate::verify).
NoWeightFromNothing ==
    slot > 0 => \A s \in Sides :
        LET signed == TotalWeight([v \in last[s].voters |-> SeatWeight(committee, v)])
        IN  \A votes \in Presentable(s) :
              LET certificate == [block |-> s, votes |-> votes]
              IN  Verifies(certificate, s, committee, slot - 1, validators)
                    => CertifiedWeight(certificate, committee) <= signed

\* Two different blocks of one slot are both certified only if more than a
\* third of the weight on duty signed both: the strict two-thirds threshold
\* against a window that slides and weights frozen at the draw.
ConflictNeedsDoubleVoters ==
    \A s, t \in Sides : s # t /\ last[s].certified /\ last[t].certified =>
        3 * TotalWeight([v \in last[s].voters \cap last[t].voters |-> SeatWeight(committee, v)])
            > ActiveWeightAt(committee, slot - 1)

\* The leak only ever helps: what a certificate finalises, the leak's test
\* finalises too, whatever was missed before (returning signers at full weight).
LeakNeverHinders == \A s \in Sides : last[s].certified => last[s].restored

\* The two sides cannot both be final on blocks no member signed twice unless
\* some member has been silent beyond the grace on one of them.
SplitOutlastsGrace ==
    (\A s \in Sides : IsFinal(last[s])) /\ (\A s, t \in Sides : s # t => last[s].voters \cap last[t].voters = {})
        => \E s \in Sides : last[s].silence > LeakGrace

\* Finality comes back with nobody intervening: a side that always hears one
\* registered member of the committee is final again and again (leak.rs).
FinalityReturns ==
    \A s \in Sides :
        <>[](\E v \in Seats(committee) : CanVote(s, v)) => []<>IsFinal(last[s])

=============================================================================
