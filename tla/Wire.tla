--------------------------------- MODULE Wire ---------------------------------
(* What travels and what is hashed: the schema of every protocol object, and *)
(* an object altered on its way.  Digests, identifiers, keys and signatures  *)
(* are fixed-width bytes of no structure, scaled to one or two of them.      *)
EXTENDS Codec

CONSTANTS MaxEdits,     \* bytes altered on the way
          ShortObject,  \* objects longer than this are altered once at most
          Samples(_)    \* the values sent, of each kind of object

VARIABLES schema,       \* the object's schema, "none" before anything is sent
          sent,         \* its value
          wire,         \* its bytes, as they arrive
          edits

wireVars == <<schema, sent, wire, edits>>

(* Scalars.                                                                  *)
Hash == Raw(1)
Salt == Raw(1)
Version == Raw(2)
Bool == Octet({0, 1})
Word == Number(0 .. U64 - 1)
Medium == Number(0 .. U32 - 1)
Small == Number(0 .. U8 - 1)
Amount == Word
Lane == Medium
Ratio == Struct(<<"Word", "Word">>)
Nonce == Struct(<<"Lane", "Word">>)

(* AlgorithmId: the signature algorithms of the four; the key's and the      *)
(* signature's length follow from the byte.  Scaled: 4 is the test one.      *)
AlgorithmByte == Octet({1, 3, 4})
VerifyingKey == Tagged("AlgorithmByte",
    [a \in {1, 3, 4} |-> IF a = 3 THEN "Version" ELSE "Hash"])
Signature == Tagged("AlgorithmByte",
    [a \in {1, 3, 4} |-> IF a = 1 THEN "Version" ELSE "Hash"])

(* Name::new, over an alphabet of two letters, the hyphen and, among the     *)
(* bytes that remain, what is not allowed.                                   *)
Hyphen == 3
Names == {s \in UNION {[1 .. n -> {1, 2, Hyphen}] : n \in 1 .. 3} :
            /\ s[1] # Hyphen /\ s[Len(s)] # Hyphen
            /\ \A i \in 1 .. (Len(s) - 1) : ~ (s[i] = Hyphen /\ s[i + 1] = Hyphen)}
Name == Text(Names)

(* Accounts and the other records of the state tree.                         *)
Device == Struct(<<"VerifyingKey", "Lane", "Amount", "Amount">>)
Account == Struct(<<"Balances", "Amount", "Amount", "Devices", "HashSet", "Lane",
                    "Lanes", "HashSet", "Medium", "Amount", "OptionName">>)
AssetRecord == Struct(<<"Hash", "Name", "Small", "Bool", "Amount">>)
CommitmentRecord == Struct(<<"Hash", "Word">>)
PendingRecovery == Struct(<<"VerifyingKey", "HashSet", "Word", "Word">>)
AccountOffence == Struct(<<"Hash", "Hash", "Lane", "Word">>)
ValidatorOffence == Struct(<<"Hash", "Word">>)
PendingClosure == Struct(<<"Hash", "Medium", "Word", "Word", "Bool">>)
Purse == Struct(<<"Hash", "Hash", "OptionHash", "Amount", "Hash", "Amount", "Medium",
                  "Word", "OptionClosure">>)
MultiplierOne == 2
MultiplierMax == 5
Multiplier == Number(MultiplierOne .. MultiplierMax)
ValidatorRecord == Struct(<<"Hash", "VerifyingKey", "Amount", "Multiplier", "Hash", "Hash">>)

(* Transactions.                                                             *)
TxKindFields == <<
    <<"Hash", "OptionHash", "Amount">>,                                 \* Transfer
    <<"Amount", "Amount">>,                                             \* NomadSet
    <<"VerifyingKey", "Lane", "Amount">>,                               \* DeviceAdd
    <<"Hash">>,                                                         \* DeviceRevoke
    <<"Hash">>,                                                         \* NameCommit
    <<"Name", "Salt">>,                                                 \* NameReveal
    <<"HashSet", "Medium">>,                                            \* GuardianSet
    <<"Hash", "VerifyingKey">>,                                         \* RecoveryStart
    <<"Hash">>,                                                         \* RecoveryCancel
    <<"Hash">>,                                                         \* RecoveryFinalise
    <<"Amount", "Hash">>,                                               \* Bond
    <<"Amount">>,                                                       \* Unbond
    <<"Hash", "OptionHash", "Amount", "Hash", "Amount", "Word">>,       \* PurseOpen
    <<"Hash", "Amount", "Amount", "Signature">>,                        \* PurseCloseCooperative
    <<"Hash", "Medium", "Hash">>,                                       \* PurseCloseUnilateral
    <<"Hash", "Medium", "Hash">>,                                       \* PurseDispute
    <<"Name", "Small", "Bool">>,                                        \* AssetCreate
    <<"Hash", "Hash", "Amount">>,                                       \* AssetMint
    <<"Hash", "Amount">>,                                               \* AssetBurn
    <<"NestedAccountEquivocation">>,
    <<"NestedValidatorEquivocation">> >>
KindName == <<"Transfer", "NomadSet", "DeviceAdd", "DeviceRevoke", "NameCommit",
    "NameReveal", "GuardianSet", "RecoveryStart", "RecoveryCancel", "RecoveryFinalise",
    "Bond", "Unbond", "PurseOpen", "PurseCloseCooperative", "PurseCloseUnilateral",
    "PurseDispute", "AssetCreate", "AssetMint", "AssetBurn", "AccountEquivocationKind",
    "ValidatorEquivocationKind">>
TxKind == Tagged("Word", KindName)
TxBody == Struct(<<"Version", "Hash", "Hash", "Hash", "Nonce", "Amount", "Validity",
                   "TxKind">>)
Transaction == Struct(<<"TxBody", "Signature">>)
AccountEquivocation == Struct(<<"Hash", "Transaction", "Transaction">>)

(* Blocks, votes and proofs.                                                 *)
FinalityRung == Number(1 .. 3)
BlockHeader == Struct(<<"Version", "Hash", "Word", "Hash", "FinalityRung", "Word", "Hash",
                        "Hash", "Hash", "Hash", "Hash", "Amount", "Amount", "Ratio">>)
SignedHeader == Struct(<<"BlockHeader", "Signature">>)
ValidatorEquivocation == Struct(<<"Hash", "SignedHeader", "SignedHeader">>)
Vote == Struct(<<"Hash", "Signature">>)
Certificate == Struct(<<"Hash", "Votes">>)
Block == Struct(<<"SignedHeader", "Transactions", "OptionCertificate">>)
MaxTranches == 5
PayWordIndex == Number(0 .. MaxTranches)
PayWordToken == Struct(<<"PayWordIndex", "Hash">>)
MaxSegments == 4
DelayParameters == Checked(<<"Word", "Medium">>,
    {p \in (1 .. U64 - 1) \X (1 .. MaxSegments) : p[1] % p[2] = 0})
DelayProof == Struct(<<"DelayParameters", "Hashes">>)
SmtLeaf == Struct(<<"Hash", "Hash">>)
MaxSiblings == 2
Digests == [1 .. 1 -> Byte]
SmtProof == Checked(<<"Hashes", "OptionLeaf">>,
    BoundedSeq(Digests, MaxSiblings) \X BoundedSeq(Digests \X Digests, 1))

KindSchemas == [n \in Range(KindName) |->
            Struct(TxKindFields[CHOOSE i \in DOMAIN KindName : KindName[i] = n])]
TypeSchemas == [
    Hash |-> Hash, Salt |-> Salt, Version |-> Version, Bool |-> Bool, Word |-> Word,
    Medium |-> Medium, Small |-> Small, Amount |-> Amount, Lane |-> Lane, Ratio |-> Ratio,
    Nonce |-> Nonce, AlgorithmByte |-> AlgorithmByte, VerifyingKey |-> VerifyingKey,
    Signature |-> Signature, Name |-> Name, Device |-> Device, Account |-> Account,
    AssetRecord |-> AssetRecord, CommitmentRecord |-> CommitmentRecord,
    PendingRecovery |-> PendingRecovery, AccountOffence |-> AccountOffence,
    ValidatorOffence |-> ValidatorOffence, PendingClosure |-> PendingClosure,
    Purse |-> Purse, Multiplier |-> Multiplier, ValidatorRecord |-> ValidatorRecord,
    TxKind |-> TxKind, TxBody |-> TxBody, Transaction |-> Transaction,
    AccountEquivocation |-> AccountEquivocation, FinalityRung |-> FinalityRung,
    BlockHeader |-> BlockHeader, SignedHeader |-> SignedHeader,
    ValidatorEquivocation |-> ValidatorEquivocation, Vote |-> Vote,
    Certificate |-> Certificate, Block |-> Block, PayWordIndex |-> PayWordIndex,
    PayWordToken |-> PayWordToken, DelayParameters |-> DelayParameters,
    DelayProof |-> DelayProof, SmtLeaf |-> SmtLeaf, SmtProof |-> SmtProof]
ContainerSchemas == [
    OptionHash |-> Option("Hash"), Validity |-> OptionHere("Word"),
    OptionName |-> Option("Name"), OptionClosure |-> Option("PendingClosure"),
    OptionCertificate |-> Option("Certificate"), OptionLeaf |-> Option("SmtLeaf"),
    Hashes |-> Seqs("Hash"), HashSet |-> Sets("Hash"), Votes |-> Seqs("Vote"),
    Transactions |-> Seqs("Transaction"),
    Balance |-> Struct(<<"OptionHash", "Amount">>),
    Balances |-> Map("optional key", "Balance"),
    DeviceEntry |-> Struct(<<"Hash", "Device">>),
    Devices |-> Map("byte key", "DeviceEntry"),
    LaneEntry |-> Struct(<<"Lane", "Word">>),
    Lanes |-> Map("number key", "LaneEntry"),
    NestedAccountEquivocation |-> Nested("AccountEquivocation"),
    NestedValidatorEquivocation |-> Nested("ValidatorEquivocation")]
Schema == [n \in DOMAIN KindSchemas \cup DOMAIN TypeSchemas \cup DOMAIN ContainerSchemas |->
             IF n \in DOMAIN KindSchemas THEN KindSchemas[n]
             ELSE IF n \in DOMAIN TypeSchemas THEN TypeSchemas[n] ELSE ContainerSchemas[n]]

(* What nodes send one another, or store, as a whole.                        *)
Objects == {"Ratio", "Nonce", "VerifyingKey", "Signature", "Name", "Device", "Account",
    "AssetRecord", "CommitmentRecord", "PendingRecovery", "AccountOffence",
    "ValidatorOffence", "PendingClosure", "Purse", "Multiplier", "ValidatorRecord", "TxKind",
    "Transaction", "SignedHeader", "Certificate", "Block", "PayWordToken",
    "DelayProof", "SmtLeaf", "SmtProof", "HashSet", "Lanes"}

(* They are values of their types, and none is longer than is accepted.      *)
ASSUME SamplesAssumption ==
    \A name \in Objects : \A v \in Samples(name) :
       IsValue(Schema, name, v) /\ Len(Written(Schema, name, v)) <= MaxObject

WireInit ==
    /\ schema = "none" /\ sent = <<>> /\ wire = <<>> /\ edits = 0

Send(name) ==
    /\ schema = "none"
    /\ schema' = name
    /\ \E v \in Samples(name) :
          /\ sent' = v
          /\ wire' = Written(Schema, name, v)
    /\ UNCHANGED edits

MayAlter ==
    /\ schema # "none"
    /\ edits < (IF Len(wire) <= ShortObject THEN MaxEdits ELSE 1)
    /\ edits' = edits + 1
    /\ UNCHANGED <<schema, sent>>

(* A byte is replaced, inserted or removed, by the line or by a peer.        *)
ReplaceByte == MayAlter /\ \E i \in DOMAIN wire, c \in Byte :
                  wire' = [wire EXCEPT ![i] = c]
InsertByte == MayAlter /\ \E i \in 1 .. (Len(wire) + 1), c \in Byte :
                  wire' = InsertAt(wire, i, c)
DropByte == MayAlter /\ \E i \in DOMAIN wire : wire' = RemoveAt(wire, i)

WireNext == (\E name \in Objects : Send(name)) \/ ReplaceByte \/ InsertByte \/ DropByte

(* Bijectivity, the property codec.rs exists for: an object arrives as it    *)
(* was sent, and whatever an altered encoding decodes to is a value whose    *)
(* only encoding it is.  So no two byte strings are the same transaction     *)
(* with two digests.                                                         *)
CanonicalEncoding ==
    schema # "none" =>
       /\ edits = 0 => Decoded(Schema, schema, wire) = {sent}
       /\ \A v \in Decoded(Schema, schema, wire) : Written(Schema, schema, v) = wire
=============================================================================
