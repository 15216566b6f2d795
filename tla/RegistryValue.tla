---------------------------- MODULE RegistryValue ----------------------------
(***************************************************************************)
(* What becomes of one registry value that the scan has read: its data is  *)
(* decoded after its type, its name is kept as text or as hexadecimal      *)
(* digits (registry.rs), and the entry is checked when the Snapshot it is  *)
(* in is validated (systemdiff-core).  The loop over the strings of a list *)
(* takes one step for each string.                                         *)
(*                                                                         *)
(* Names and data are sequences of UTF-16 code units: the terminator, the  *)
(* two halves of a surrogate pair, the two marks of RunOnce names, and     *)
(* letters.  A text is the sequence of its units, which must be well       *)
(* formed.  Data may have an odd byte after its last unit.                 *)
(***************************************************************************)
EXTENDS Naturals, Sequences, SequencesExt

CONSTANTS
    Inputs,       \* records with fields kind, name, type, units and odd
    NameLimit     \* REGISTRY_VALUE_NAME_MAX_UTF16_UNITS

Zero == "0"
High == "high"
Low == "low"
Bang == "!"
Star == "*"

ASSUME InputsAssumption ==
    \A i \in Inputs :
        /\ i.kind \in {"run", "run_once"}
        /\ i.name \in Seq(Range(i.name)) /\ i.units \in Seq(Range(i.units))
        /\ i.odd \in BOOLEAN
        /\ Len(i.name) <= NameLimit

VARIABLES
    at,          \* the next step
    raw,         \* the value as it was read
    values,      \* the strings of the list found so far
    start,       \* the index of the unit where the next one starts
    decoding,    \* what the data was decoded to
    entry,       \* the entry of the Snapshot
    verdict      \* what validate says of it

vars == <<at, raw, values, start, decoding, entry, verdict>>

-----------------------------------------------------------------------------
(***************************************************************************)
(* Texts, and names without one                                            *)
(***************************************************************************)

\* String::from_utf16 accepts the units.
WellFormed(units) ==
    /\ \A k \in DOMAIN units :
           units[k] = High => k < Len(units) /\ units[k + 1] = Low
    /\ \A k \in DOMAIN units :
           units[k] = Low => k > 1 /\ units[k - 1] = High

\* Mutant: the bytes are written in the other order.
MutantHexOf(units) ==
    [k \in 1 .. 2 * Len(units) |->
        <<units[(k + 1) \div 2], IF k % 2 = 0 THEN "lower" ELSE "upper">>]

\* encode_utf16le_hex: for each unit its lower byte, then its upper one.
HexOf(units) ==
    [k \in 1 .. 2 * Len(units) |->
        <<units[(k + 1) \div 2], IF k % 2 = 1 THEN "lower" ELSE "upper">>]

\* The unit of these two bytes; of bytes in the other order, some other unit.
UnitOf(first, second) ==
    IF first[2] = "lower" /\ second[2] = "upper" THEN first[1] ELSE "other"

\* decode_utf16le_hex of digits that encode_utf16le_hex may have written.
UnitsOf(hex) == [k \in 1 .. Len(hex) \div 2 |-> UnitOf(hex[2 * k - 1], hex[2 * k])]

\* RegistryValueName::from_utf16_units
NameOf(units) ==
    IF WellFormed(units) THEN <<"decoded", units>> ELSE <<"invalid_utf16", HexOf(units)>>

\* RegistryValueName::utf16_units
NameUnits(name) == IF name[1] = "decoded" THEN name[2] ELSE UnitsOf(name[2])

\* classify_run_once_prefix_units
RunOncePrefix(units) ==
    CASE units = <<>> \/ Head(units) \notin {Bang, Star} -> "no_documented_prefix"
      [] Len(units) = 1 \/ units[2] \in {Bang, Star} -> "undocumented"
      [] Head(units) = Bang -> "defer_deletion_until_after_run"
      [] Head(units) = Star -> "run_in_safe_mode"

-----------------------------------------------------------------------------
(***************************************************************************)
(* decode_registry_value                                                   *)
(***************************************************************************)
Invalid == <<"invalid_data">>

Decoded(kind, value) == <<"decoded", <<kind, value>>>>

\* decode_single_string: one terminator, at the end.
SingleString(kind, units) ==
    LET body == Front(units)
    IN  IF /\ units # <<>>
           /\ Last(units) = Zero
           /\ Zero \notin Range(body)
           /\ WellFormed(body)
        THEN Decoded(kind, body)
        ELSE Invalid

\* The types whose data has a fixed number of units.
Numbers == {4, 5, 11}

NumberUnits(type) == IF type = 11 THEN 4 ELSE 2

\* The number that these bytes are in this order.
NumberOf(type, units) ==
    CASE type = 4 -> Decoded("dword", <<"low_first", units>>)
      [] type = 5 -> Decoded("dword", <<"high_first", units>>)
      [] type = 11 -> Decoded("qword", <<"low_first", units>>)

Opaque == {0, 3, 6, 8, 9, 10}

\* The decoding of all types but the list of strings.
DecodingOf(value) ==
    CASE value.type \in {1, 2} ->
            IF value.odd THEN Invalid
            ELSE SingleString(IF value.type = 1 THEN "string" ELSE "expand", value.units)
      [] value.type \in Numbers ->
            IF ~value.odd /\ Len(value.units) = NumberUnits(value.type)
            THEN NumberOf(value.type, value.units)
            ELSE Invalid
      [] value.type \in Opaque -> <<"not_applicable">>
      [] OTHER -> <<"unsupported_type">>

-----------------------------------------------------------------------------
NoEntry == <<>>

TypeOK ==
    /\ at \in {"decode", "list", "build", "validate", "done"}
    /\ raw.kind \in {"run", "run_once"} /\ Len(raw.name) <= NameLimit
    /\ start \in 1 .. Len(raw.units) + 1
    /\ \A k \in DOMAIN values : WellFormed(values[k]) /\ values[k] # <<>>
    /\ decoding[1] \in {"none", "decoded", "invalid_data", "not_applicable",
                        "unsupported_type"}
    /\ verdict \in {"none", "valid", "value_name", "startup_kind", "run_once_prefix",
                   "value_type"}

Init ==
    /\ at = "decode"
    /\ raw \in Inputs
    /\ values = <<>>
    /\ start = 1
    /\ decoding = <<"none">>
    /\ entry = NoEntry
    /\ verdict = "none"

Decode ==
    /\ at = "decode"
    /\ raw.type # 7
    /\ decoding' = DecodingOf(raw)
    /\ at' = "build"
    /\ UNCHANGED <<raw, values, start, entry, verdict>>

EndsList(units) ==
    Len(units) >= 2 /\ units[Len(units)] = Zero /\ units[Len(units) - 1] = Zero

\* decode_multi_string before its loop.
DecodeList ==
    /\ at = "decode"
    /\ raw.type = 7
    /\ LET units == raw.units
       IN  \/ /\ raw.odd \/ ~EndsList(units)
              /\ decoding' = Invalid
              /\ at' = "build"
           \/ /\ ~raw.odd /\ units = <<Zero, Zero>>
              /\ decoding' = Decoded("multi", <<>>)
              /\ at' = "build"
           \/ /\ ~raw.odd /\ EndsList(units) /\ units # <<Zero, Zero>>
              /\ at' = "list"
              /\ UNCHANGED decoding
    /\ UNCHANGED <<raw, values, start, entry, verdict>>

\* The last unit is the terminator of the list, and none of its strings.
ListEnd == Len(raw.units)

\* The terminators where the string that begins at start may end.
Terminators == {k \in start .. ListEnd - 1 : raw.units[k] = Zero}

\* That string; without a terminator, which is refused too, the empty one.
StringAtStart ==
    IF Terminators = {} THEN <<>> ELSE SubSeq(raw.units, start, Min(Terminators) - 1)

\* Mutant: an empty string is taken as one.
MutantAcceptable(text) == WellFormed(text)

Acceptable(text) == text # <<>> /\ WellFormed(text)

\* One turn of the loop, or its end.
TakeString ==
    /\ at = "list"
    /\ \/ /\ start < ListEnd
          /\ \/ /\ Acceptable(StringAtStart)
                /\ values' = Append(values, StringAtStart)
                /\ start' = start + Len(StringAtStart) + 1
                /\ UNCHANGED <<at, decoding>>
             \/ /\ ~Acceptable(StringAtStart)
                /\ decoding' = Invalid
                /\ at' = "build"
                /\ UNCHANGED <<values, start>>
       \/ /\ start >= ListEnd
          /\ decoding' = Decoded("multi", values)
          /\ at' = "build"
          /\ UNCHANGED <<values, start>>
    /\ UNCHANGED <<raw, entry, verdict>>

\* Mutant: the prefix is that of the name's text.
MutantPrefixOf(value) ==
    IF value.kind = "run" THEN "none"
    ELSE RunOncePrefix(IF WellFormed(value.name) THEN value.name ELSE <<>>)

PrefixOf(value) == IF value.kind = "run" THEN "none" ELSE RunOncePrefix(value.name)

\* observation_from_raw.  The data stands for its hash.
Build ==
    /\ at = "build"
    /\ entry' = [kind |-> raw.kind, key |-> raw.kind, name |-> NameOf(raw.name),
                 prefix |-> PrefixOf(raw), type |-> raw.type,
                 content |-> <<raw.units, raw.odd>>, decoding |-> decoding]
    /\ at' = "validate"
    /\ UNCHANGED <<raw, values, start, decoding, verdict>>

-----------------------------------------------------------------------------
(***************************************************************************)
(* validate_registry_startup_entry                                         *)
(***************************************************************************)
NameValid(name) ==
    /\ Len(NameUnits(name)) <= NameLimit
    /\ Zero \notin Range(NameUnits(name))
    /\ name[1] = "invalid_utf16" => NameUnits(name) # <<>> /\ ~WellFormed(NameUnits(name))

PrefixValid(e) ==
    e.prefix = IF e.kind = "run" THEN "none" ELSE RunOncePrefix(NameUnits(e.name))

\* decoded_value_matches_type
TypeMatches(type, kind) ==
    \/ kind = "string" /\ type = 1
    \/ kind = "expand" /\ type = 2
    \/ kind = "multi" /\ type = 7
    \/ kind = "dword" /\ type \in {4, 5}
    \/ kind = "qword" /\ type = 11

Validate ==
    /\ at = "validate"
    /\ verdict' =
        CASE ~NameValid(entry.name) -> "value_name"
          [] entry.key # entry.kind -> "startup_kind"
          [] ~PrefixValid(entry) -> "run_once_prefix"
          [] entry.decoding[1] = "decoded"
                /\ ~TypeMatches(entry.type, entry.decoding[2][1]) -> "value_type"
          [] OTHER -> "valid"
    /\ at' = "done"
    /\ UNCHANGED <<raw, values, start, decoding, entry>>

Next == Decode \/ DecodeList \/ TakeString \/ Build \/ Validate

Spec == Init /\ [][Next]_vars

-----------------------------------------------------------------------------
(***************************************************************************)
(* Properties                                                              *)
(***************************************************************************)

\* The data of a value as Windows writes it.
Encoding(kind, value) ==
    CASE kind \in {"string", "expand"} -> Append(value, Zero)
      [] kind = "multi" ->
            IF value = <<>> THEN <<Zero, Zero>>
            ELSE Append(FlattenSeq([k \in DOMAIN value |-> Append(value[k], Zero)]), Zero)
      [] OTHER -> value[2]

\* Whether data is a list of strings, said of the whole of it: it is text, it
\* ends with two terminators, and nowhere before are there two or one at first.
ListData(units) ==
    /\ WellFormed(units)
    /\ \/ units = <<Zero, Zero>>
       \/ /\ IsSuffix(<<Zero, Zero>>, units)
          /\ units[1] # Zero
          /\ \A k \in 1 .. Len(units) - 2 : ~(units[k] = Zero /\ units[k + 1] = Zero)

\* What is decoded can be turned into the native data again, so two data of one
\* type never share a decoding; and a list that is one is decoded.
Lossless ==
    /\ decoding[1] = "decoded" =>
        ~raw.odd /\ raw.units = Encoding(decoding[2][1], decoding[2][2])
    /\ at = "done" /\ raw.type = 7 =>
        (decoding[1] = "decoded" <=> ~raw.odd /\ ListData(raw.units))

\* The name in the Snapshot is the native name unit by unit, whatever it holds.
NameKept ==
    entry # NoEntry => NameUnits(entry.name) = raw.name

\* The validation of the Snapshot, where a refused entry costs the whole capture,
\* and the collector agree on names, prefixes, types and decodings, whatever the
\* registry holds, but for one thing: a name that contains a terminator is kept
\* by the collector and refused by the validation.
RefusedForTerminatorOnly ==
    at = "done" =>
        verdict = IF Zero \in Range(raw.name) THEN "value_name" ELSE "valid"
=============================================================================
