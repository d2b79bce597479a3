------------------------------- MODULE Address -------------------------------
(* Addresses: Bech32m (vanargand-types/src/bech32.rs) around a version and   *)
(* an account identifier (address.rs), as a person copies them.  The         *)
(* checksum is computed exactly; the identifier is scaled to AccountBytes    *)
(* bytes, which leaves the same four bits of padding as thirty-two do when   *)
(* there are two of them.  Characters are their ASCII codes.                 *)
EXTENDS Integers, Sequences, FiniteSets, SequencesExt, FiniteSetsExt

CONSTANTS AccountBytes,
          Accounts,     \* identifiers, as byte strings
          Typed,        \* characters a slip of the hand may produce
          MaxTypos

ASSUME AddressAssumption ==
    /\ \A a \in Accounts : a \in [1 .. AccountBytes -> 0 .. 255]
    /\ MaxTypos \in Nat

VARIABLES intended,     \* <<network, account>>, <<>> before anything is written
          text,         \* what stands on the paper or on the screen
          typos,        \* how many slips made it
          crafted       \* whether somebody put a checksum on data of their own

addressVars == <<intended, text, typos, crafted>>

Network == [Mainnet |-> <<118, 97, 110>>, Testnet |-> <<116, 118, 97, 110>>]
AddressVersion == 0
MaxTextLength == 90
Separator == 49                                             \* '1'
Charset == <<113, 112, 122, 114, 121, 57, 120, 56, 103, 102, 50, 116, 118, 100, 119, 48,
             115, 51, 106, 110, 53, 52, 107, 104, 99, 101, 54, 109, 117, 97, 55, 108>>
SymbolOf(char) == CHOOSE v \in 0 .. 31 : Charset[v + 1] = char

(* Thirty bits as the set of the positions that are one: exclusive or is the *)
(* symmetric difference, a shift moves the positions.                        *)
Bits(n) == {i \in 0 .. 29 : (n \div 2 ^ i) % 2 = 1}
Xor(a, b) == (a \ b) \cup (b \ a)
Bech32mConst == Bits(734539939)
Generator == [i \in 0 .. 4 |->
                Bits(<<996825010, 642813549, 513874426, 1027748829, 705979059>>[i + 1])]

Polymod(values) ==
    FoldLeft(LAMBDA checksum, value :
               LET shifted == Xor({i + 5 : i \in checksum \cap 0 .. 24}, Bits(value))
               IN  FoldSet(LAMBDA i, sum : Xor(sum, Generator[i]), shifted,
                           {i \in 0 .. 4 : i + 25 \in checksum}),
             {0}, values)

(* The faulty variant whose checksum does not cover the prefix.              *)
HrpExpandNothing(hrp) == <<0>>

HrpExpand(hrp) ==
    [i \in DOMAIN hrp |-> hrp[i] \div 32] \o <<0>> \o [i \in DOMAIN hrp |-> hrp[i] % 32]

(* convert_bits: the groups as one bit string, most significant bit first,   *)
(* cut anew.                                                                 *)
BitString(groups, width) ==
    [i \in 1 .. (width * Len(groups)) |->
       (groups[((i - 1) \div width) + 1] \div 2 ^ (width - 1 - ((i - 1) % width))) % 2]
Group(bitString, width, n) ==
    FoldLeft(LAMBDA sum, i :
               2 * sum + (IF width * (n - 1) + i <= Len(bitString)
                          THEN bitString[width * (n - 1) + i] ELSE 0),
             0, [i \in 1 .. width |-> i])
ToSymbols(bytes) ==
    LET s == BitString(bytes, 8)
    IN  [n \in 1 .. ((Len(s) + 4) \div 5) |-> Group(s, 5, n)]
CanonicalPadding(symbols) ==
    LET s == BitString(symbols, 5)
        whole == 8 * (Len(s) \div 8)
    IN  Len(s) - whole < 5 /\ \A i \in (whole + 1) .. Len(s) : s[i] = 0
ToBytes(symbols) ==
    LET s == BitString(symbols, 5) IN [n \in 1 .. (Len(s) \div 8) |-> Group(s, 8, n)]

(* bech32::encode.                                                           *)
Bech32m(hrp, data) ==
    LET sum == Xor(Polymod(HrpExpand(hrp) \o data \o <<0, 0, 0, 0, 0, 0>>), Bech32mConst)
        symbol(n) == FoldSet(LAMBDA i, v : v + 2 ^ i, 0,
                             {i \in 0 .. 4 : 5 * (6 - n) + i \in sum})
        symbols == data \o [n \in 1 .. 6 |-> symbol(n)]
    IN  hrp \o <<Separator>> \o [i \in DOMAIN symbols |-> Charset[symbols[i] + 1]]

IsUpper(c) == c \in 65 .. 90
IsLower(c) == c \in 97 .. 122
Lowered(s) == [i \in DOMAIN s |-> IF IsUpper(s[i]) THEN s[i] + 32 ELSE s[i]]

(* bech32::decode: the prefix and the data without its checksum, or nothing. *)
Bech32mDecoded(s) ==
    LET low == Lowered(s)
        marks == {i \in DOMAIN low : low[i] = Separator}
        mark == Max(marks)
        hrp == SubSeq(low, 1, mark - 1)
        chars == SubSeq(low, mark + 1, Len(low))
        symbols == [i \in DOMAIN chars |-> SymbolOf(chars[i])]
    IN  IF /\ Len(s) <= MaxTextLength
           /\ ~ (\E i, j \in DOMAIN s : IsUpper(s[i]) /\ IsLower(s[j]))
           /\ marks # {} /\ mark > 1
           /\ \A i \in DOMAIN hrp : hrp[i] \in 33 .. 126
           /\ Len(chars) >= 6
           /\ \A i \in DOMAIN chars : chars[i] \in Range(Charset)
           /\ Polymod(HrpExpand(hrp) \o symbols) = Bech32mConst
        THEN {[hrp |-> hrp, data |-> SubSeq(symbols, 1, Len(symbols) - 6)]}
        ELSE {}

(* Address::fmt and Address::from_str.                                       *)
Shown(network, account) == Bech32m(Network[network], <<AddressVersion>> \o ToSymbols(account))
Parsed(s) ==
    UNION {{<<n, ToBytes(Tail(d.data))>> :
              n \in {n \in DOMAIN Network :
                       /\ Network[n] = d.hrp
                       /\ d.data # <<>> /\ Head(d.data) = AddressVersion
                       /\ CanonicalPadding(Tail(d.data))
                       /\ (5 * (Len(d.data) - 1)) \div 8 = AccountBytes}} :
           d \in Bech32mDecoded(s)}
(* Address::parse_on.                                                        *)
ParsedOn(expected, s) == {a \in Parsed(s) : a[1] = expected}

AddressInit == intended = <<>> /\ text = <<>> /\ typos = 0 /\ crafted = FALSE

WriteAddress(network, account) ==
    /\ intended = <<>>
    /\ intended' = <<network, account>>
    /\ text' = Shown(network, account)
    /\ UNCHANGED <<typos, crafted>>

(* A slip: one character is another, one too many, missing, or swapped with  *)
(* its neighbour.                                                            *)
Mistype ==
    /\ intended # <<>> /\ typos < MaxTypos /\ ~ crafted
    /\ \/ \E i \in DOMAIN text, c \in Typed : text' = [text EXCEPT ![i] = c]
       \/ \E i \in 1 .. (Len(text) + 1), c \in Typed : text' = InsertAt(text, i, c)
       \/ \E i \in DOMAIN text : text' = RemoveAt(text, i)
       \/ \E i \in 1 .. (Len(text) - 1) :
             text' = [text EXCEPT ![i] = text[i + 1], ![i + 1] = text[i]]
    /\ typos' = typos + 1
    /\ UNCHANGED <<intended, crafted>>

(* Everything in capitals, as on a QR code.                                  *)
Capitalise ==
    /\ intended # <<>>
    /\ text' = [i \in DOMAIN text |-> IF IsLower(text[i]) THEN text[i] - 32 ELSE text[i]]
    /\ UNCHANGED <<intended, typos, crafted>>

(* Somebody puts a right checksum on data no address has: another version,   *)
(* padding that is not zero, a symbol more.                                  *)
Craft(version, last, extra) ==
    /\ intended # <<>> /\ typos = 0 /\ ~ crafted
    /\ LET symbols == ToSymbols(intended[2])
       IN  text' = Bech32m(Network[intended[1]],
                           <<version>> \o [symbols EXCEPT ![Len(symbols)] = last] \o extra)
    /\ crafted' = TRUE
    /\ UNCHANGED <<intended, typos>>

AddressNext ==
    \/ \E network \in DOMAIN Network, account \in Accounts : WriteAddress(network, account)
    \/ Mistype \/ Capitalise
    \/ \E version \in {0, 1}, last \in 0 .. 31, extra \in {<<>>, <<0>>, <<0, 0>>} :
          Craft(version, last, extra)

(* An address is read as the one it was written as; a slip is refused, and   *)
(* never read as another account or as the other network; and whatever is    *)
(* read at all has no second spelling but capitals.                          *)
MistypedIsRefused ==
    /\ intended # <<>> /\ typos = 0 /\ ~ crafted => ParsedOn(intended[1], text) = {intended}
    /\ ~ crafted => Parsed(text) \subseteq {intended}
    /\ \A a \in Parsed(text) : Shown(a[1], a[2]) = Lowered(text)
=============================================================================
