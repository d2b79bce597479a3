----------------------------- MODULE MerkleList -----------------------------
(* The Merkle tree over a block's transactions (vanargand-types/src/         *)
(* merkle.rs): its root, its inclusion proofs and their recomputation.       *)
(* Digests are terms, as in StateTree; leaves and nodes hash under their own *)
(* domains.                                                                  *)
EXTENDS Naturals, Sequences, FiniteSets, SequencesExt

CONSTANTS Leaves,       \* transaction identifiers
          MaxLeaves     \* how many a block holds

ASSUME MerkleListAssumption == MaxLeaves \in Nat

VARIABLE list           \* the block's transactions so far

listVars == <<list>>

EmptyRoot == <<"zero">>
LeafHash(leaf) == <<"leaf", leaf>>
NodeHash(left, right) == <<"node", left, right>>

(* The faulty variant that duplicates an odd last node.                      *)
FoldLevelDuplicating(level) ==
    [i \in 1 .. ((Len(level) + 1) \div 2) |->
       NodeHash(level[2 * i - 1], level[IF 2 * i <= Len(level) THEN 2 * i ELSE 2 * i - 1])]

(* fold_level: pairs are hashed, an odd last node is promoted.               *)
FoldLevel(level) ==
    [i \in 1 .. ((Len(level) + 1) \div 2) |->
       IF 2 * i <= Len(level) THEN NodeHash(level[2 * i - 1], level[2 * i])
       ELSE level[2 * i - 1]]

(* The levels of list_root, from the leaves' hashes up; one node stays one.  *)
Levels(leaves) ==
    LET level[d \in 0 .. Len(leaves)] ==
            IF d = 0 THEN [i \in DOMAIN leaves |-> LeafHash(leaves[i])]
            ELSE FoldLevel(level[d - 1])
    IN  level

(* Where its loop ends: the first level of one node.                         *)
Height(leaves) == Min({d \in DOMAIN Levels(leaves) : Len(Levels(leaves)[d]) = 1})

ListRoot(leaves) == IF leaves = <<>> THEN EmptyRoot ELSE Levels(leaves)[Height(leaves)][1]

(* The sibling of a node in its level; positions count from zero.            *)
ProofStep(level, position) ==
    IF position = Len(level) - 1 /\ Len(level) % 2 = 1 THEN <<"promoted">>
    ELSE IF position % 2 = 0 THEN <<"right", level[position + 2]>>
    ELSE <<"left", level[position]>>

(* Where the path from a leaf is, level by level.                            *)
Positions(index, height) ==
    LET position[d \in 0 .. height] == IF d = 0 THEN index ELSE position[d - 1] \div 2
    IN  position

ListProof(leaves, index) ==
    LET position == Positions(index, Height(leaves))
    IN  [index |-> index,
         steps |-> [d \in 1 .. Height(leaves) |->
                      ProofStep(Levels(leaves)[d - 1], position[d - 1])]]

(* What a running value becomes under one step.                              *)
TakeStep(step, running) ==
    CASE step[1] = "left" -> NodeHash(step[2], running)
      [] step[1] = "right" -> NodeHash(running, step[2])
      [] OTHER -> running

RootFromProof(leaf, proof) ==
    LET running[d \in 0 .. Len(proof.steps)] ==
            IF d = 0 THEN LeafHash(leaf) ELSE TakeStep(proof.steps[d], running[d - 1])
    IN  running[Len(proof.steps)]

ListInit == list = <<>>

(* A proposer adds a transaction.                                            *)
AppendLeaf(leaf) == Len(list) < MaxLeaves /\ list' = Append(list, leaf)

ListNext == \E leaf \in Leaves : AppendLeaf(leaf)

(* Proofs a reader may be offered: the honest ones of this list and of its   *)
(* prefixes, whole or cut short at either end.                               *)
OfferedPaths ==
    LET honest == UNION {{ListProof(SubSeq(list, 1, n), i).steps : i \in 0 .. (n - 1)} :
                         n \in 1 .. Len(list)}
    IN  UNION {{SubSeq(p, a, b) : a \in 1 .. (Len(p) + 1), b \in 0 .. Len(p)} : p \in honest}

(* What may be passed off as a transaction: one, or a digest from inside the *)
(* tree.                                                                     *)
Presented ==
    Leaves \cup {step[2] : step \in {s \in UNION {Range(p) : p \in OfferedPaths} : Len(s) = 2}}

(* Every transaction of a block is shown to be in it by its proof; nothing   *)
(* that is not in the block ever is, by any proof offered; and the block's   *)
(* root is the root of no other list that is not longer.                     *)
OnlyListedIsIncluded ==
    LET Others == UNION {[1 .. n -> Leaves] : n \in 0 .. Len(list)}
        root == ListRoot(list)
    IN  /\ \A i \in DOMAIN list : RootFromProof(list[i], ListProof(list, i - 1)) = root
        /\ \A leaf \in Presented, path \in OfferedPaths :
              RootFromProof(leaf, [index |-> 0, steps |-> path]) = root => leaf \in Range(list)
        /\ \A other \in Others : ListRoot(other) = root => other = list
=============================================================================
