-------------------------------- MODULE Codec --------------------------------
(* The canonical encoding (vanargand-types/src/codec.rs), driven by schemas: *)
(* what Encoder writes for a value of a schema, and what Decoder reads from  *)
(* a byte string.                                                            *)
(*                                                                           *)
(* Bytes are scaled.  A byte is 0..2*Radix-1: a payload below Radix and the  *)
(* continuation bit (the code has Radix = 128); a u64 is 0..U64-1 and its    *)
(* widest varint has MaxVarintBytes bytes, the last of which holds fewer     *)
(* payload bits than the others, as the tenth byte does in the code.  A      *)
(* refusal is the absence of a reading: which CodecError is left out.        *)
EXTENDS Naturals, Sequences, FiniteSets, SequencesExt, FiniteSetsExt

CONSTANTS Radix, U64, U32, U8, MaxVarintBytes,
          MaxCount, MaxLength, MaxObject, MaxNesting,
          Calls         \* how deep one decode calls another, at most

Power[i \in 0 .. MaxVarintBytes] == IF i = 0 THEN 1 ELSE Radix * Power[i - 1]

ASSUME CodecAssumption ==
    /\ {Radix, U64, U32, U8, MaxVarintBytes, MaxObject} \subseteq Nat \ {0}
    /\ {MaxCount, MaxLength, MaxNesting, Calls} \subseteq Nat
    /\ U8 <= U32 /\ U32 <= U64 /\ MaxCount < U64 /\ MaxLength < U64
    /\ Radix > 1 /\ Power[MaxVarintBytes - 1] < U64 /\ U64 < Power[MaxVarintBytes]

Byte == 0 .. (2 * Radix - 1)

(* Schemas.  A field names the schema of its value, so that evidence may     *)
(* contain transactions that contain evidence.  Decoder's own collections    *)
(* read their elements one level deeper; a decoder that reads an option or   *)
(* the entries of a map itself does not.                                     *)
Number(values) == [form |-> "varint", legal |-> values]
Octet(values) == [form |-> "octet", legal |-> values]
Raw(width) == [form |-> "raw", width |-> width]
Text(strings) == [form |-> "text", legal |-> strings]
Option(of) == [form |-> "option", of |-> of, nests |-> 1]
OptionHere(of) == [form |-> "option", of |-> of, nests |-> 0]
Seqs(of) == [form |-> "many", of |-> of, order |-> "none", nests |-> 1]
Sets(of) == [form |-> "many", of |-> of, order |-> "encoded", nests |-> 1]
Map(key, of) == [form |-> "many", of |-> of, order |-> key, nests |-> 0]
Struct(fields) == [form |-> "struct", fields |-> fields]
Nested(of) == [form |-> "nested", of |-> of, nests |-> 1]
Checked(fields, values) == [form |-> "checked", fields |-> fields, legal |-> values]
Tagged(tag, cases) == [form |-> "tagged", tag |-> tag, cases |-> cases]

(* The depth at which a collection's elements are read.                      *)
Inside(s, depth) == depth + s.nests

(* Encoder::write_varint: the low digit first, the shortest form.            *)
Varint[n \in 0 .. (U64 - 1)] ==
    IF n < Radix THEN <<n>> ELSE <<Radix + (n % Radix)>> \o Varint[n \div Radix]

(* A part of what is being written: a value still to be encoded, or a byte.  *)
Part(name, v, depth) == [name |-> name, value |-> v, depth |-> depth]
Bytes(s) == [i \in DOMAIN s |-> Part("byte", s[i], 0)]

(* One call of Encode::encode: the bytes it writes itself and, in its order, *)
(* the parts it has others write.                                            *)
Writes(Schema, p) ==
    LET s == Schema[p.name]
        v == p.value
        same(name, x) == Part(name, x, p.depth)
        deeper(x) == Part(s.of, x, Inside(s, p.depth))
    IN  IF p.name = "byte" THEN <<p>> ELSE
        CASE s.form = "varint" -> Bytes(Varint[v])
          [] s.form = "octet" -> Bytes(<<v>>)
          [] s.form = "raw" -> Bytes(v)
          [] s.form = "text" -> Bytes(Varint[Len(v)] \o v)
          [] s.form = "option" ->
                IF v = <<>> THEN Bytes(<<0>>) ELSE Bytes(<<1>>) \o <<deeper(v[1])>>
          [] s.form = "many" ->
                Bytes(Varint[Len(v)]) \o [i \in 1 .. Len(v) |-> deeper(v[i])]
          [] s.form = "nested" -> <<deeper(v)>>
          [] s.form \in {"struct", "checked"} ->
                [i \in 1 .. Len(s.fields) |-> same(s.fields[i], v[i])]
          [] s.form = "tagged" -> <<same(s.tag, v[1]), same(s.cases[v[1]], v[2])>>

(* The calls carried out level by level, until what is left is bytes.        *)
WriteAll(Schema, parts) ==
    FlattenSeq([i \in 1 .. Len(parts) |-> Writes(Schema, parts[i])])
Writing(Schema, parts) ==
    LET w[n \in 0 .. Calls] == IF n = 0 THEN parts ELSE WriteAll(Schema, w[n - 1]) IN w

Encoding(Schema, p) ==
    LET done == Writing(Schema, <<p>>)[Calls] IN [i \in 1 .. Len(done) |-> done[i].value]
Written(Schema, name, v) == Encoding(Schema, Part(name, v, 0))

(* A reading: the value and how many bytes it consumed up to its end.        *)
Reading(v, next) == [value |-> v, next |-> next]

(* What the digits of s add up to, the last of them the highest.             *)
Payload(s) ==
    LET sum[k \in 0 .. Len(s)] ==
          IF k = 0 THEN 0 ELSE (s[Len(s) + 1 - k] % Radix) + Radix * sum[k - 1]
    IN  sum[Len(s)]

(* The varint at a position: no wider than a u64 and no larger than one.     *)
AnyVarint(b, at) ==
    LET ends == {i \in (at + 1) .. Len(b) : b[i] < Radix}
        last == Min(ends)
        value == Payload(SubSeq(b, at + 1, last))
    IN  IF ends # {} /\ last - at <= MaxVarintBytes /\ value < U64
        THEN {Reading(value, last)} ELSE {}

(* Decoder::read_varint also insists on the shortest form.                   *)
ReadVarint(b, at) ==
    {r \in AnyVarint(b, at) : r.next = at + 1 \/ b[r.next] # 0}

(* Decoder::read_length and read_seq_len: a declared length against its      *)
(* limit and against the bytes that remain.                                  *)
ReadLength(b, at, limit) ==
    {r \in ReadVarint(b, at) : r.value <= limit /\ r.value <= Len(b) - r.next}

(* Decoder::take.                                                            *)
Take(b, at, width) ==
    IF at + width <= Len(b)
    THEN {Reading(SubSeq(b, at + 1, at + width), at + width)} ELSE {}

(* The byte order of sets: by encoding, a proper prefix first.               *)
Precedes(x, y) ==
    \/ IsStrictPrefix(x, y)
    \/ \E i \in DOMAIN x \cap DOMAIN y :
          x[i] < y[i] /\ \A j \in 1 .. (i - 1) : x[j] = y[j]

(* The order each collection's decoder insists on: a set's over the input    *)
(* bytes of the elements, a map's over the values of its keys.               *)
InOrder(order, spans, vs) ==
    \A i \in 1 .. (Len(vs) - 1) :
       CASE order = "none" -> TRUE
         [] order = "encoded" -> Precedes(spans[i], spans[i + 1])
         [] order = "number key" -> vs[i][1] < vs[i + 1][1]
         [] order = "byte key" -> Precedes(vs[i][1], vs[i + 1][1])
         [] order = "optional key" ->
               /\ vs[i + 1][1] # <<>>
               /\ vs[i][1] = <<>> \/ Precedes(vs[i][1][1], vs[i + 1][1][1])

(* One value after another: the values and where each one ended.             *)
ReadNext(reads, name, depth, d) ==
    {[values |-> Append(d.values, r.value), ends |-> Append(d.ends, r.next)] :
       r \in reads[<<name, Last(d.ends), depth>>]}
ReadParts(reads, names, at, depth) ==
    LET done[i \in 0 .. Len(names)] ==
          IF i = 0 THEN {[values |-> <<>>, ends |-> <<at>>]}
          ELSE UNION {ReadNext(reads, names[i], depth, d) : d \in done[i - 1]}
    IN  done[Len(names)]

ReadFields(reads, s, at, depth) ==
    {Reading(d.values, Last(d.ends)) : d \in ReadParts(reads, s.fields, at, depth)}

ReadMany(reads, s, b, n, at, depth) ==
    {Reading(d.values, Last(d.ends)) :
       d \in {x \in ReadParts(reads, [i \in 1 .. n |-> s.of], at, depth) :
                InOrder(s.order,
                        [i \in 1 .. n |-> SubSeq(b, x.ends[i] + 1, x.ends[i + 1])],
                        x.values)}}

(* Decoder::read_* and Decode::decode: one call, given what the calls it     *)
(* makes read.                                                               *)
ReadOne(reads, s, b, at, depth) ==
    CASE s.form = "varint" -> {r \in ReadVarint(b, at) : r.value \in s.legal}
      [] s.form = "octet" ->
            {Reading(r.value[1], r.next) :
               r \in {x \in Take(b, at, 1) : x.value[1] \in s.legal}}
      [] s.form = "raw" -> Take(b, at, s.width)
      [] s.form = "text" ->
            {r \in UNION {Take(b, n.next, n.value) : n \in ReadLength(b, at, MaxLength)} :
               r.value \in s.legal}
      [] s.form = "option" ->
            UNION {IF r.value = <<0>> THEN {Reading(<<>>, r.next)}
                   ELSE IF r.value = <<1>>
                   THEN {Reading(<<x.value>>, x.next) : x \in reads[<<s.of, r.next, Inside(s, depth)>>]}
                   ELSE {} : r \in Take(b, at, 1)}
      [] s.form = "many" ->
            UNION {ReadMany(reads, s, b, n.value, n.next, Inside(s, depth)) :
                   n \in ReadLength(b, at, MaxCount)}
      [] s.form = "nested" -> reads[<<s.of, at, Inside(s, depth)>>]
      [] s.form = "struct" -> ReadFields(reads, s, at, depth)
      [] s.form = "checked" -> {r \in ReadFields(reads, s, at, depth) : r.value \in s.legal}
      [] s.form = "tagged" ->
            UNION {{Reading(<<t.value, x.value>>, x.next) :
                      x \in reads[<<s.cases[t.value], t.next, depth>>]} :
                   t \in {t \in reads[<<s.tag, at, depth>>] : t.value \in DOMAIN s.cases}}

(* What each decode reads at each position and depth, by how many calls deep *)
(* it may go.  Nesting too deep is refused.                                  *)
Places(Schema, b) == (DOMAIN Schema) \X (0 .. Len(b)) \X (0 .. MaxNesting + 1)
ReadAll(Schema, b, reads) ==
    [x \in Places(Schema, b) |->
       IF x[3] > MaxNesting THEN {} ELSE ReadOne(reads, Schema[x[1]], b, x[2], x[3])]
Reads(Schema, b) ==
    LET reads[calls \in 0 .. Calls] ==
          IF calls = 0 THEN [x \in Places(Schema, b) |-> {}]
          ELSE ReadAll(Schema, b, reads[calls - 1])
    IN  reads

(* Decode::from_canonical_bytes: all of the input, and nothing after it.     *)
Decoded(Schema, name, b) ==
    {r.value : r \in {x \in Reads(Schema, b)[Calls][<<name, 0, 0>>] :
                        Len(b) <= MaxObject /\ x.next = Len(b)}}

(* A value of its type: what the code's types and their constructors hold,   *)
(* and what the collections keep in order.                                   *)
Admits(Schema, p) ==
    LET s == Schema[p.name]
        v == p.value
    IN  /\ p.name \in DOMAIN Schema /\ p.depth \in 0 .. MaxNesting
        /\ CASE s.form = "varint" -> v \in s.legal /\ v \in 0 .. (U64 - 1)
             [] s.form = "octet" -> v \in s.legal /\ v \in Byte
             [] s.form = "raw" -> v \in [1 .. s.width -> Byte]
             [] s.form = "text" -> v \in s.legal /\ v \in Seq(Byte) /\ Len(v) <= MaxLength
             [] s.form = "option" -> v = <<>> \/ v = <<v[1]>>
             [] s.form = "many" ->
                   /\ v \in Seq(Range(v)) /\ Len(v) <= MaxCount
                   /\ InOrder(s.order,
                              [i \in 1 .. Len(v) |->
                                 Encoding(Schema, Part(s.of, v[i], Inside(s, p.depth)))], v)
             [] s.form = "nested" -> TRUE
             [] s.form = "struct" -> v = [i \in 1 .. Len(s.fields) |-> v[i]]
             [] s.form = "checked" -> v \in s.legal /\ v = [i \in 1 .. Len(s.fields) |-> v[i]]
             [] s.form = "tagged" -> v = <<v[1], v[2]>> /\ v[1] \in DOMAIN s.cases

(* And so are the parts it is written as, down to the bytes.                 *)
Admitted(Schema, parts, below) ==
    {p \in parts : \/ p = Part("byte", p.value, 0) /\ p.value \in Byte
                   \/ Admits(Schema, p) /\ Range(Writes(Schema, p)) \subseteq below}
IsValue(Schema, name, v) ==
    LET p == Part(name, v, 0)
        met == UNION {Range(Writing(Schema, <<p>>)[n]) : n \in 0 .. Calls}
        admitted[n \in 0 .. Calls] ==
          IF n = 0 THEN {} ELSE Admitted(Schema, met, admitted[n - 1])
    IN  p \in admitted[Calls]
=============================================================================
