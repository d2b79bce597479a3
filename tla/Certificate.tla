---------------------------- MODULE Certificate ----------------------------
(***************************************************************************)
(* Votes and certificates.  A vote names its member and the block its      *)
(* signature really covers, or Absent when the signature covers nothing.   *)
(***************************************************************************)
EXTENDS Committee

CONSTANTS
    TestKeyed,              \* accounts whose validator key uses a test algorithm
    AllowTestAlgorithms     \* whether such keys count on this chain

ASSUME TestKeyAssumption == TestKeyed \subseteq Accounts /\ AllowTestAlgorithms \in BOOLEAN

Vote(member, covers) == [member |-> member, covers |-> covers]

AlgorithmAllowed(account) == AllowTestAlgorithms \/ account \notin TestKeyed

\* Faulty variant of Ascending: a member may repeat.
AscendingLoosely(votes) ==
    \A i \in 2..Len(votes) : votes[i - 1].member <= votes[i].member

Ascending(votes) == \A i \in 2..Len(votes) : votes[i - 1].member < votes[i].member

\* One vote passes: on duty, known, an allowed algorithm, a true signature.
VoteCounts(vote, block, duty, validators) ==
    /\ vote.member \in duty
    /\ IsKnown(validators, vote.member)
    /\ AlgorithmAllowed(vote.member)
    /\ vote.covers = block

CertifiedWeight(certificate, committee) ==
    SumFunction([i \in 1..Len(certificate.votes) |->
                    SeatWeight(committee, certificate.votes[i].member)])

\* A certificate verifies as a whole or not at all.
Verifies(certificate, block, committee, slot, validators) ==
    LET duty == ActiveAt(committee, slot)
    IN  /\ certificate.block = block
        /\ Ascending(certificate.votes)
        /\ \A i \in 1..Len(certificate.votes) :
              VoteCounts(certificate.votes[i], block, duty, validators)
        /\ CertifiedWeight(certificate, committee) <= MaxWeight

\* The certificate that a set of voters makes for a block.
CertificateOf(voters, block) ==
    [block |-> block,
     votes |-> [i \in 1..Cardinality(voters) |-> Vote(InOrder(voters)[i], block)]]

\* The rung a block reaches: enough verified weight against the weight on duty.
Finalises(certificate, block, committee, slot, validators) ==
    /\ Verifies(certificate, block, committee, slot, validators)
    /\ ExceedsTwoThirds(CertifiedWeight(certificate, committee), ActiveWeightAt(committee, slot))

=============================================================================
