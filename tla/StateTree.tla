------------------------------ MODULE StateTree ------------------------------
(* The sparse Merkle tree of state (vanargand-state/src/smt.rs), its         *)
(* namespaced keys (keys.rs), and a light client that is shown proofs by     *)
(* somebody it does not trust.                                               *)
(*                                                                           *)
(* A digest is a term: hashing is injective and nothing else is assumed of   *)
(* it.  A key is its Depth bits, most significant first.                     *)
EXTENDS Naturals, Sequences, FiniteSets, Functions, SequencesExt

CONSTANTS Depth,        \* bits of a key: DEPTH
          Records,      \* what state holds, <<namespace, identifier>>
          KeyOf,        \* where the hash puts each record's key
          ValueDigests  \* digests of records' contents

ASSUME StateTreeAssumption ==
    /\ Depth \in Nat \ {0}
    /\ KeyOf \in [Records -> [1 .. Depth -> {0, 1}]]
    /\ IsInjective(KeyOf)

VARIABLES entries,      \* the tree's contents: a function on the keys present
          before        \* the contents one change ago

treeVars == <<entries, before>>

ZeroDigest == <<"zero">>

(* Every key there could be.                                                 *)
Paths == [1 .. Depth -> {0, 1}]

(* keys::derive: one key per namespace and payload.                          *)
StateKey(record) == KeyOf[record]
Keys == {StateKey(r) : r \in Records}

TreeLeaf(key, value) == <<"leaf", key, value>>
Combine(left, right) ==
    IF left = ZeroDigest /\ right = ZeroDigest THEN ZeroDigest ELSE <<"node", left, right>>

(* Whether a key agrees with another on its first bits.                      *)
SharesPrefix(a, b, bits) == \A i \in 1 .. bits : a[i] = b[i]

(* The entries that are left on the way to a key, after so many bits.        *)
Within(content, key, depth) == {k \in DOMAIN content : SharesPrefix(k, key, depth)}

(* The key with one bit set to a value; and with the other value.            *)
Turn(key, depth, bit) == [key EXCEPT ![depth] = bit]
Aside(key, depth) == Turn(key, depth, 1 - key[depth])

(* subtree_root: an empty slice, one entry at any depth, or two halves, whose *)
(* digests are in `below`.                                                    *)
SliceRoot(content, key, depth, below) ==
    LET slice == Within(content, key, depth)
        only == CHOOSE k \in slice : TRUE
    IN  IF slice = {} THEN ZeroDigest
        ELSE IF Cardinality(slice) = 1 THEN TreeLeaf(only, content[only])
        ELSE IF depth >= Depth THEN ZeroDigest
        ELSE Combine(below[Turn(key, depth + 1, 0)], below[Turn(key, depth + 1, 1)])

(* The roots of the subtrees on the way to every key, from the leaves up.    *)
Subtrees(content) ==
    LET subtree[height \in 0 .. Depth] ==
            IF height = 0 THEN [key \in Paths |-> SliceRoot(content, key, Depth, <<>>)]
            ELSE [key \in Paths |->
                    SliceRoot(content, key, Depth - height, subtree[height - 1])]
    IN  subtree
SubtreeRoot(content, key, depth) == Subtrees(content)[Depth - depth][key]

Root(content) == SubtreeRoot(content, [i \in 1 .. Depth |-> 0], 0)

(* walk: siblings from the root downwards, and the one leaf where the path   *)
(* ends, if there is any.                                                    *)
PathLength(content, key) ==
    Min({d \in 0 .. Depth : Cardinality(Within(content, key, d)) <= 1})
Prove(content, key) ==
    LET length == PathLength(content, key)
    IN  [siblings |-> [d \in 1 .. length |-> SubtreeRoot(content, Aside(key, d), d)],
         terminal |-> {[key |-> k, value |-> content[k]] : k \in Within(content, key, length)}]

(* The faulty variant that takes the key's own leaf for another's.           *)
TerminalOfAnybody(proof, key, value) ==
    CASE proof.terminal # {} ->
            {TreeLeaf(l.key, l.value) :
               l \in {l \in proof.terminal :
                        IF value = {} THEN SharesPrefix(l.key, key, Len(proof.siblings))
                        ELSE l.key = key /\ {l.value} = value}}
      [] proof.terminal = {} /\ value = {} -> {ZeroDigest}
      [] OTHER -> {}

(* The digest a proof starts from: {} when it is structurally refused.       *)
(* `value` is {} to ask about absence.                                       *)
Terminal(proof, key, value) ==
    CASE proof.terminal # {} /\ value # {} ->
            {TreeLeaf(l.key, l.value) :
               l \in {l \in proof.terminal : l.key = key /\ {l.value} = value}}
      [] proof.terminal # {} /\ value = {} ->
            {TreeLeaf(l.key, l.value) :
               l \in {l \in proof.terminal :
                        l.key # key /\ SharesPrefix(l.key, key, Len(proof.siblings))}}
      [] proof.terminal = {} /\ value = {} -> {ZeroDigest}
      [] OTHER -> {}

(* SmtProof::compute_root: back up, the deepest sibling first.               *)
WalkUp(siblings, key, start) ==
    LET digest[i \in 0 .. Len(siblings)] ==
            IF i = 0 THEN start
            ELSE LET d == Len(siblings) + 1 - i
                 IN  IF key[d] = 1 THEN Combine(siblings[d], digest[i - 1])
                     ELSE Combine(digest[i - 1], siblings[d])
    IN  digest[Len(siblings)]
ComputeRoot(proof, key, value) ==
    IF Len(proof.siblings) > Depth THEN {}
    ELSE {WalkUp(proof.siblings, key, start) : start \in Terminal(proof, key, value)}

VerifyState(proof, root, key, value) == ComputeRoot(proof, key, value) = {root}

TreeInit == entries = <<>> /\ before = <<>>

(* SparseMerkleTree::insert and remove.                                      *)
InsertEntry(key, value) ==
    /\ before' = entries
    /\ entries' = [k \in DOMAIN entries \cup {key} |->
                     IF k = key THEN value ELSE entries[k]]
RemoveEntry(key) ==
    /\ key \in DOMAIN entries
    /\ before' = entries
    /\ entries' = Restrict(entries, DOMAIN entries \ {key})

TreeNext ==
    \E record \in Records :
       \/ \E value \in ValueDigests : InsertEntry(StateKey(record), value)
       \/ RemoveEntry(StateKey(record))

(* What somebody who saw both states can put together: the honest answers    *)
(* about any key, with another leaf at the end, none, fewer siblings, or     *)
(* siblings of the other state.                                              *)
Offered ==
    LET honest == {Prove(c, k) : c \in {entries, before}, k \in Keys}
        leaves == {{[key |-> k, value |-> v]} : k \in Keys, v \in ValueDigests} \cup {{}}
        cut == UNION {{SubSeq(p.siblings, 1, n) : n \in 0 .. Len(p.siblings)} : p \in honest}
    IN  [siblings : cut, terminal : leaves]

(* What the tree says, for every key: the honest proof about it verifies,    *)
(* present or absent, and no proof that can be put together shows a value it *)
(* does not hold, or absence where it holds one.  And a root stands for one  *)
(* content only.                                                             *)
ProofsTellTheTruth ==
    LET holds(key) == IF key \in DOMAIN entries THEN {entries[key]} ELSE {}
        root == Root(entries)
    IN  /\ \A key \in Keys : VerifyState(Prove(entries, key), root, key, holds(key))
        /\ \A key \in Keys, proof \in Offered :
              \A value \in {{}} \cup {{v} : v \in ValueDigests} :
                 VerifyState(proof, root, key, value) => value = holds(key)
        /\ before # entries => Root(before) # root
=============================================================================
