----------------------------- MODULE DelayProof -----------------------------
(* The epoch seed (vanargand-consensus/src/seed.rs) and the checkpointed     *)
(* proof that its delay was run (vdf.rs), with a prover that may skip        *)
(* segments, start elsewhere or publish too many or too few checkpoints.     *)
(*                                                                           *)
(* A value of the delay function is where the iteration started and how many *)
(* steps were taken from there; a prover that skips makes up a value nobody  *)
(* else has.                                                                 *)
EXTENDS Naturals, Sequences, FiniteSets, SequencesExt

CONSTANTS Proposers,    \* in ascending account order, a sequence
          Epochs,
          Schedules,    \* the <<iterations, segments>> a prover may claim
          SegmentLimit, \* MAX_SEGMENTS
          SampleCount,  \* segments a verifier recomputes
          Heads         \* values of the 32 bits a sample is drawn from

ASSUME DelayAssumption ==
    /\ Schedules \subseteq Nat \X Nat /\ SegmentLimit \in Nat
    /\ SampleCount \in Nat \ {0} /\ Heads \in Nat \ {0}

VARIABLES reveals,      \* this epoch's reveals: who published one
          proof,        \* the proof so far
          skipped,      \* the segments the prover did not compute
          published,
          seed          \* the seed a verifier adopted, {} for none

delayVars == <<reveals, proof, skipped, published, seed>>

(* mix_reveals: in account order, whatever the order of arrival.             *)
Mix(epoch, revealed) ==
    [origin |-> <<"mix", SelectSeq(Proposers, LAMBDA p : p \in revealed), epoch>>, steps |-> 0]

Iterate(value, count) == [value EXCEPT !.steps = @ + count]

(* DelayParameters::new, which the decoder applies to what it reads.         *)
LegalParameters(schedule) ==
    /\ schedule[2] \in 1 .. SegmentLimit
    /\ schedule[1] > 0 /\ schedule[1] % schedule[2] = 0

SegmentLength(p) == p.iterations \div p.segments
Output(p) == Last(p.checkpoints)

CheckShape(p, input) ==
    Len(p.checkpoints) = p.segments + 1 /\ p.checkpoints[1] = input

(* Segments count from zero; one without both its ends is bad.               *)
CheckSegment(p, index) ==
    /\ index + 2 <= Len(p.checkpoints)
    /\ Iterate(p.checkpoints[index + 1], SegmentLength(p)) = p.checkpoints[index + 2]

(* The faulty variant whose modulus forgets the last segment.                *)
SampleIndexShort(challenge, sample, segments) ==
    IF segments = 1 THEN 0 ELSE challenge[sample] % (segments - 1)

(* sample_index: the challenge fixes the bits of every sample.               *)
SampleIndex(challenge, sample, segments) == challenge[sample] % segments

CheckSampled(p, input, challenge) ==
    /\ CheckShape(p, input)
    /\ \A sample \in 1 .. SampleCount :
          CheckSegment(p, SampleIndex(challenge, sample, p.segments))

CheckFully(p, input) ==
    CheckShape(p, input) /\ \A index \in 0 .. (p.segments - 1) : CheckSegment(p, index)

Challenges == [1 .. SampleCount -> 0 .. (Heads - 1)]
ThisEpoch == CHOOSE e \in Epochs : TRUE
Input == Mix(ThisEpoch, reveals)

DelayInit ==
    /\ reveals = {} /\ proof = {} /\ skipped = {}
    /\ published = FALSE /\ seed = {}

(* A proposer's block carries its reveal; a prover may have started already. *)
RevealForSeed(proposer) ==
    /\ ~ published /\ proposer \notin reveals
    /\ reveals' = reveals \cup {proposer}
    /\ UNCHANGED <<proof, skipped, published, seed>>

(* The prover starts, from this epoch's mix or from another, under a         *)
(* schedule of its own.                                                      *)
StartDelay(epoch, revealed, schedule) ==
    /\ proof = {} /\ LegalParameters(schedule)
    /\ proof' = {[iterations |-> schedule[1], segments |-> schedule[2],
                  checkpoints |-> <<Mix(epoch, revealed)>>]}
    /\ UNCHANGED <<reveals, skipped, published, seed>>

AddCheckpoint(p, value) ==
    /\ ~ published /\ Len(p.checkpoints) <= p.segments + 1
    /\ proof' = {[p EXCEPT !.checkpoints = Append(@, value)]}
    /\ UNCHANGED <<reveals, published, seed>>

(* DelayProof::evaluate, one segment of it, or a value made up instead.      *)
ComputeSegment ==
    \E p \in proof :
       AddCheckpoint(p, Iterate(Last(p.checkpoints), SegmentLength(p))) /\ UNCHANGED skipped
SkipSegment ==
    \E p \in proof :
       /\ AddCheckpoint(p, [origin |-> <<"made up", Len(p.checkpoints)>>, steps |-> 0])
       /\ skipped' = skipped \cup {Len(p.checkpoints) - 1}

PublishProof ==
    /\ proof # {} /\ ~ published
    /\ published' = TRUE
    /\ UNCHANGED <<reveals, proof, skipped, seed>>

(* EpochSeed::from_checked_proof, under the challenge of a later block.      *)
AdoptSeed(challenge) ==
    /\ published /\ seed = {}
    /\ \E p \in proof :
          CheckSampled(p, Input, challenge) /\ seed' = {[value |-> Output(p), delayed |-> TRUE]}
    /\ UNCHANGED <<reveals, proof, skipped, published>>

DelayNext ==
    \/ \E proposer \in Range(Proposers) : RevealForSeed(proposer)
    \/ \E epoch \in Epochs, revealed \in SUBSET Range(Proposers), schedule \in Schedules :
          StartDelay(epoch, revealed, schedule)
    \/ ComputeSegment \/ SkipSegment \/ PublishProof
    \/ \E challenge \in Challenges : AdoptSeed(challenge)

(* A number multiplied by itself once per sample.                            *)
EverySample(n) ==
    LET all[k \in 0 .. SampleCount] == IF k = 0 THEN 1 ELSE n * all[k - 1]
    IN  all[SampleCount]

(* The soundness vdf.rs states: of all the challenges, those that let a      *)
(* prover through that skipped s of n segments are the (1 - s/n)^k share the *)
(* comment computes, where a share of the values a sample is drawn from is   *)
(* exact if n divides their number and off by rounding if not; the full      *)
(* check lets through the honest evaluation of this epoch's mix and nothing  *)
(* else; and a seed is only adopted when not every segment was skipped.      *)
SamplingCatchesSkippers ==
    \A p \in proof : published =>
       LET n == p.segments
           whole == Len(p.checkpoints) = n + 1 /\ p.checkpoints[1] = Input
           computed == n - Cardinality(skipped)
           harmless == Cardinality({head \in 0 .. (Heads - 1) : head % n \notin skipped})
           passing == Cardinality({c \in Challenges : CheckSampled(p, Input, c)})
       IN  /\ passing = IF whole THEN EverySample(harmless) ELSE 0
           /\ whole => harmless \in ((Heads \div n) * computed)
                                    .. (((Heads + n - 1) \div n) * computed)
           /\ CheckFully(p, Input) <=> whole /\ skipped = {}
           /\ CheckFully(p, Input) => Output(p) = Iterate(Input, p.iterations)
           /\ seed # {} => whole /\ Cardinality(skipped) < n
=============================================================================
