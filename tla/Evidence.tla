------------------------------ MODULE Evidence ------------------------------
(* Evidence of an account's equivocation (vanargand-types/src/tx.rs), next   *)
(* to the devices that sign: what they sign in the course of honest business *)
(* on two chains and two accounts, and what somebody who collects all of it  *)
(* can have them convicted for.  A digest is what it was taken of.           *)
EXTENDS Naturals, FiniteSets

CONSTANTS Chains,       \* this chain and its clones
          AccountIds,
          DeviceKeys,   \* a key's device identifier is the key
          RegisteredOn, \* RegisteredOn[account]: the keys it registered
          Kinds, EvidenceKinds,
          MaxSequence, MaxSigned

ASSUME EvidenceAssumption ==
    /\ RegisteredOn \in [AccountIds -> SUBSET DeviceKeys]
    /\ EvidenceKinds \subseteq Kinds
    /\ MaxSequence \in Nat /\ MaxSigned \in Nat

VARIABLES signed,       \* every transaction signed, wherever it was published
          convicted     \* <<account, device>>: convictions

evidenceVars == <<signed, convicted>>

(* TxBody.  A device signs in its own lane, so the lane is the device.       *)
TransactionBody ==
    [chain : Chains, account : AccountIds, device : DeviceKeys, lane : DeviceKeys,
     sequence : 0 .. MaxSequence, kind : Kinds]

(* TxBody::id is taken over the body alone, signing_digest over chain and id.*)
TransactionId(body) == <<"txid", body>>
SigningDigest(body) == <<"tx signing", body.chain, TransactionId(body)>>

(* sign::sign and Transaction::verify.  `hedge` tells apart the signatures a *)
(* signer may make of one digest.                                            *)
Sign(key, body, hedge) ==
    [body |-> body, signature |-> [by |-> key, over |-> SigningDigest(body), hedge |-> hedge]]
VerifyTransaction(tx, key) ==
    /\ tx.body.device = key
    /\ tx.signature.by = key /\ tx.signature.over = SigningDigest(tx.body)

(* Nonce::collides_with.                                                     *)
CollidesWith(a, b) == a.lane = b.lane /\ a.sequence = b.sequence

(* The faulty variant that leaves the chain out: one device, one slot, two   *)
(* chains.                                                                   *)
IsAccountEquivocationAnywhere(device, first, second, key) ==
    LET a == first.body
        b == second.body
    IN  /\ a.kind \notin EvidenceKinds /\ b.kind \notin EvidenceKinds
        /\ a.account = b.account
        /\ a.device = device /\ b.device = device
        /\ CollidesWith(a, b)
        /\ TransactionId(a) # TransactionId(b)
        /\ VerifyTransaction(first, key) /\ VerifyTransaction(second, key)

(* AccountEquivocation::check.                                               *)
IsAccountEquivocation(device, first, second, key) ==
    LET a == first.body
        b == second.body
    IN  /\ a.kind \notin EvidenceKinds /\ b.kind \notin EvidenceKinds
        /\ a.chain = b.chain
        /\ a.account = b.account
        /\ a.device = device /\ b.device = device
        /\ CollidesWith(a, b)
        /\ TransactionId(a) # TransactionId(b)
        /\ VerifyTransaction(first, key) /\ VerifyTransaction(second, key)

SlotOf(body) == <<body.chain, body.account, body.device, body.lane, body.sequence>>
BodiesOf(slot) == {b \in {t.body : t \in signed} : SlotOf(b) = slot}

EvidenceInit == signed = {} /\ convicted = {}

(* An honest device: the next slot of its lane, on one account of one chain. *)
SignNext(chain, account, key, kind) ==
    LET body(n) == [chain |-> chain, account |-> account, device |-> key, lane |-> key,
                    sequence |-> n, kind |-> kind]
        used == {n \in 0 .. MaxSequence : BodiesOf(SlotOf(body(n))) # {}}
    IN  /\ Cardinality(signed) < MaxSigned
        /\ key \in RegisteredOn[account]
        /\ Cardinality(used) <= MaxSequence
        /\ signed' = signed \cup {Sign(key, body(Cardinality(used)), 0)}
        /\ UNCHANGED convicted

(* A wallet signs what it signed already once more, after a restart.         *)
SignAgain ==
    /\ Cardinality(signed) < MaxSigned
    /\ \E tx \in signed : signed' = signed \cup {Sign(tx.signature.by, tx.body, 1)}
    /\ UNCHANGED convicted

(* A device signs another body for a slot it has used: after the first one   *)
(* expired, or to spend twice.                                               *)
SignAnother(kind) ==
    /\ Cardinality(signed) < MaxSigned
    /\ \E tx \in signed :
          signed' = signed \cup {Sign(tx.signature.by, [tx.body EXCEPT !.kind = kind], 0)}
    /\ UNCHANGED convicted

(* Ledger::punish_account_equivocation, as far as the evidence goes: the     *)
(* accused account has the device registered, and the check passes.          *)
Convicts(device, first, second) ==
    /\ device \in RegisteredOn[first.body.account]
    /\ IsAccountEquivocation(device, first, second, device)
Denounce(device) ==
    \E first, second \in signed :
       /\ Convicts(device, first, second)
       /\ convicted' = convicted \cup {<<first.body.account, device>>}
       /\ UNCHANGED signed

EvidenceNext ==
    \/ \E chain \in Chains, account \in AccountIds, key \in DeviceKeys, kind \in Kinds :
          SignNext(chain, account, key, kind)
    \/ SignAgain
    \/ \E kind \in Kinds : SignAnother(kind)
    \/ \E device \in DeviceKeys : Denounce(device)

(* Nobody is convicted for honest business: not for signing again, not for   *)
(* the same slot on another account or another chain, not for what another   *)
(* device signed.  And whoever signs two bodies for one slot can be          *)
(* convicted, unless one of the two is itself evidence.                      *)
OnlyDoubleSignersAreConvicted ==
    LET payments(slot) == {b \in BodiesOf(slot) : b.kind \notin EvidenceKinds}
        twice == {<<t.body.account, t.body.device>> :
                    t \in {t \in signed : Cardinality(payments(SlotOf(t.body))) > 1}}
    IN  /\ convicted \subseteq twice
        /\ \A account \in AccountIds, device \in DeviceKeys :
              <<account, device>> \in twice
                 => \E first, second \in signed :
                       first.body.account = account /\ Convicts(device, first, second)
=============================================================================
