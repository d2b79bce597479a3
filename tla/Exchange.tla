------------------------------ MODULE Exchange ------------------------------
(* What one party takes from another without trusting it, and the check that *)
(* makes it safe to: an encoded object, a proof about state, a proof that a  *)
(* transaction is in a block, an epoch seed, an address, evidence of a       *)
(* double signing.  The six checks share no state: `dealing` says which of   *)
(* them a behaviour is about.                                                *)
EXTENDS Wire, StateTree, MerkleList, DelayProof, Address, Evidence

VARIABLE dealing

vars == <<dealing, wireVars, treeVars, listVars, delayVars, addressVars, evidenceVars>>

Init ==
    /\ dealing \in {"object", "state", "inclusion", "seed", "address", "evidence"}
    /\ WireInit /\ TreeInit /\ ListInit /\ DelayInit /\ AddressInit /\ EvidenceInit

DealsInObjects ==
    /\ dealing = "object" /\ WireNext
    /\ UNCHANGED <<dealing, treeVars, listVars, delayVars, addressVars, evidenceVars>>
DealsInState ==
    /\ dealing = "state" /\ TreeNext
    /\ UNCHANGED <<dealing, wireVars, listVars, delayVars, addressVars, evidenceVars>>
DealsInInclusion ==
    /\ dealing = "inclusion" /\ ListNext
    /\ UNCHANGED <<dealing, wireVars, treeVars, delayVars, addressVars, evidenceVars>>
DealsInSeeds ==
    /\ dealing = "seed" /\ DelayNext
    /\ UNCHANGED <<dealing, wireVars, treeVars, listVars, addressVars, evidenceVars>>
DealsInAddresses ==
    /\ dealing = "address" /\ AddressNext
    /\ UNCHANGED <<dealing, wireVars, treeVars, listVars, delayVars, evidenceVars>>
DealsInEvidence ==
    /\ dealing = "evidence" /\ EvidenceNext
    /\ UNCHANGED <<dealing, wireVars, treeVars, listVars, delayVars, addressVars>>

Next ==
    \/ DealsInObjects \/ DealsInState \/ DealsInInclusion
    \/ DealsInSeeds \/ DealsInAddresses \/ DealsInEvidence

Spec == Init /\ [][Next]_vars
=============================================================================
