------------------------------ MODULE MCExchange ------------------------------
(* Small instances of the six checks: bytes of two payload bits, trees of    *)
(* eight keys, blocks of six transactions, three segments, an account        *)
(* identifier of two bytes, two chains and two accounts that share a device. *)
EXTENDS Exchange

\* Two keys that differ in the last bit only, a third under the same first
\* bit, two under the other.
MCRecords ==
    {<<"account", 1>>, <<"account", 2>>, <<"purse", 1>>, <<"name", 1>>, <<"recovery", 1>>}
MCKeyOf == [r \in MCRecords |->
    CASE r = <<"account", 1>> -> <<0, 0, 0>>
      [] r = <<"account", 2>> -> <<0, 0, 1>>
      [] r = <<"purse", 1>> -> <<0, 1, 0>>
      [] r = <<"name", 1>> -> <<1, 1, 0>>
      [] r = <<"recovery", 1>> -> <<1, 1, 1>>]

\* One schedule the decoder refuses, and legal ones of one to three segments.
MCProposers == <<"p", "q">>
MCSchedules == {<<6, 3>>, <<6, 1>>, <<1, 1>>, <<4, 2>>, <<5, 2>>}

MCAccounts == {<<0, 0>>, <<255, 170>>}

(* A few values of a schema, in its own order; evidence stops at the depth   *)
(* given.                                                                    *)
RECURSIVE SamplesOf(_, _)
SamplesOf(name, fuel) ==
    LET s == Schema[name]
        inner == SamplesOf(s.of, fuel - 1)
        columns == FoldLeft(LAMBDA done, n : Append(done, SamplesOf(n, fuel - 1)), <<>>, s.fields)
        most == Max({Len(columns[i]) : i \in DOMAIN columns})
        pick(xs, i) == xs[(i % Len(xs)) + 1]
        diagonal == IF <<>> \in Range(columns) THEN <<>>
                    ELSE [k \in 1 .. most |->
                            [i \in DOMAIN columns |->
                               pick(columns[i], IF i = 1 THEN k - 1 ELSE k + i)]]
        tagged(t) == LET vs == SamplesOf(s.cases[t], fuel - 1)
                     IN  [i \in 1 .. (IF Len(vs) < 2 THEN Len(vs) ELSE 2) |-> <<t, vs[i]>>]
    IN  IF fuel = 0 THEN <<>> ELSE
        CASE s.form \in {"varint", "octet"} -> <<Min(s.legal), Max(s.legal)>>
          [] s.form = "raw" -> <<[i \in 1 .. s.width |-> i], [i \in 1 .. s.width |-> 5 + i]>>
          [] s.form = "text" -> <<<<1>>, <<2, Hyphen, 1>>>>
          [] s.form = "option" -> <<<<>>>> \o [i \in DOMAIN inner |-> <<inner[i]>>]
          [] s.form = "many" -> IF inner = <<>> THEN <<<<>>>>
                                ELSE <<<<>>, <<inner[1]>>, <<inner[1], inner[2]>>>>
          [] s.form = "nested" -> inner
          [] s.form = "struct" -> diagonal
          [] name = "DelayParameters" -> <<<<1, 1>>, <<U64 - 2, 2>>>>
          [] name = "SmtProof" -> diagonal
          [] s.form = "tagged" ->
                FlattenSeq([t \in 1 .. Max(DOMAIN s.cases) |->
                              IF t \in DOMAIN s.cases THEN tagged(t) ELSE <<>>])

MCSamples(name) == Range(SamplesOf(name, 9))

MCRegisteredOn == [alice |-> {"phone", "card"}, shop |-> {"phone"}]
===============================================================================
