------------------------- MODULE RegistryValueProofs -------------------------
(***************************************************************************)
(* What RegistryValue promises for values of any length and of any units:  *)
(* the loop over a list stays inside the data and decodes exactly what is  *)
(* a list, what is decoded gives the data again, a name comes back from    *)
(* the document unit by unit, and an entry passes the validation of its    *)
(* Snapshot unless its name holds a terminator.                            *)
(***************************************************************************)
EXTENDS RegistryValue, SequenceProofs

-----------------------------------------------------------------------------
(***************************************************************************)
(* The operators                                                           *)
(***************************************************************************)

\* The digits of a name give its units again.
LEMMA DigitsGiveUnits ==
  ASSUME NEW units, units \in Seq(Range(units))
  PROVE  UnitsOf(HexOf(units)) = units
<1> DEFINE n == Len(units)
<1>1. n \in Nat /\ units = [k \in 1 .. n |-> units[k]]
  BY LenProperties
<1>2. \A k \in 1 .. 2 * n :
        HexOf(units)[k] = <<units[(k + 1) \div 2], IF k % 2 = 1 THEN "lower" ELSE "upper">>
  BY DEF HexOf
<1>3. Len(HexOf(units)) = 2 * n
  BY <1>1, LenProperties, IsASeq DEF HexOf
<1>4. ASSUME NEW k \in 1 .. n
      PROVE  UnitOf(HexOf(units)[2 * k - 1], HexOf(units)[2 * k]) = units[k]
  <2>1. 2 * k - 1 \in 1 .. 2 * n /\ 2 * k \in 1 .. 2 * n
    BY <1>1
  <2>2. /\ (2 * k - 1 + 1) \div 2 = k /\ (2 * k - 1) % 2 = 1
        /\ (2 * k + 1) \div 2 = k /\ (2 * k) % 2 = 0
    BY <1>1
  <2>3. HexOf(units)[2 * k - 1] = <<units[k], "lower">>
    BY <1>2, <2>1, <2>2
  <2>4. HexOf(units)[2 * k] = <<units[k], "upper">>
    BY <1>2, <2>1, <2>2
  <2>5. UnitOf(<<units[k], "lower">>, <<units[k], "upper">>) = units[k]
    BY DEF UnitOf
  <2> QED
    BY <2>3, <2>4, <2>5
<1>5. (2 * n) \div 2 = n
  <2>1. \A m \in Nat : (2 * m) \div 2 = m
    OBVIOUS
  <2> QED
    BY <1>1, <2>1
<1>6. UnitsOf(HexOf(units)) = [k \in 1 .. n |-> units[k]]
  BY <1>3, <1>4, <1>5 DEF UnitsOf
<1> QED
  BY <1>1, <1>6

\* A name that went into a document comes out of it.
LEMMA NameUnitsOfName ==
  ASSUME NEW units, units \in Seq(Range(units))
  PROVE  NameUnits(NameOf(units)) = units
BY DigitsGiveUnits DEF NameOf, NameUnits

\* The name of a native value without a terminator is a valid name.
LEMMA NameOfIsValid ==
  ASSUME NEW units, units \in Seq(Range(units)), Len(units) <= NameLimit,
         Zero \notin Range(units)
  PROVE  NameValid(NameOf(units))
<1>1. NameUnits(NameOf(units)) = units
  BY NameUnitsOfName
<1>2. NameOf(units)[1] = "invalid_utf16" => ~WellFormed(units)
  BY DEF NameOf
<1>3. WellFormed(<<>>)
  BY DEF WellFormed
<1> QED
  BY <1>1, <1>2, <1>3 DEF NameValid

\* A value is decoded to a kind that its type allows.
LEMMA DecodingMatches ==
  ASSUME NEW value, DecodingOf(value)[1] = "decoded"
  PROVE  TypeMatches(value.type, DecodingOf(value)[2][1])
<1>0. Invalid[1] # "decoded"
  BY DEF Invalid
<1>1. CASE value.type \in {1, 2}
  <2> DEFINE kind == IF value.type = 1 THEN "string" ELSE "expand"
  <2>1. DecodingOf(value) = Invalid \/ DecodingOf(value) = SingleString(kind, value.units)
    BY <1>1 DEF DecodingOf, Numbers, Opaque
  <2>2. \A k, u : SingleString(k, u) = Invalid \/ SingleString(k, u) = Decoded(k, Front(u))
    BY DEF SingleString
  <2>3. DecodingOf(value)[2][1] = kind
    BY <1>0, <2>1, <2>2 DEF Decoded
  <2> QED
    BY <1>1, <2>3 DEF TypeMatches
<1>2. CASE value.type \in Numbers
  <2>1. DecodingOf(value) = Invalid \/ DecodingOf(value) = NumberOf(value.type, value.units)
    BY <1>2 DEF DecodingOf, Numbers
  <2>2. DecodingOf(value) = NumberOf(value.type, value.units)
    BY <1>0, <2>1
  <2> QED
    BY <1>2, <2>2 DEF NumberOf, Decoded, TypeMatches, Numbers
<1>3. CASE value.type \notin {1, 2} \union Numbers
  BY <1>3 DEF DecodingOf
<1> QED
  BY <1>1, <1>2, <1>3

\* The string at the start of the rest of the list ends before its end.
LEMMA StringInside ==
  ASSUME raw.units \in Seq(Range(raw.units)), start \in 1 .. Len(raw.units) + 1,
         start < ListEnd, Acceptable(StringAtStart)
  PROVE  start + Len(StringAtStart) + 1 \in 1 .. Len(raw.units) + 1
<1>1. Terminators # {}
  BY DEF Acceptable, StringAtStart
<1>2. Terminators \in SUBSET Nat /\ Len(raw.units) \in Nat
  BY LenProperties DEF Terminators, ListEnd
<1>3. Min(Terminators) \in Terminators
  BY <1>1, <1>2, MinIsLeast
<1>4. Min(Terminators) \in start .. Len(raw.units) - 1
  BY <1>3 DEF Terminators, ListEnd
<1>5. Len(SubSeq(raw.units, start, Min(Terminators) - 1)) = Min(Terminators) - start
  BY <1>2, <1>4, SubSeqProperties
<1> QED
  BY <1>1, <1>2, <1>4, <1>5 DEF StringAtStart

-----------------------------------------------------------------------------
(***************************************************************************)
(* Typing                                                                  *)
(***************************************************************************)

\* The native value stays what the scan has read.
RawKept == raw \in Inputs

Typed == TypeOK /\ RawKept

LEMMA RawIsInput ==
  ASSUME Typed
  PROVE  /\ raw.kind \in {"run", "run_once"} /\ Len(raw.name) <= NameLimit
         /\ raw.name \in Seq(Range(raw.name)) /\ raw.units \in Seq(Range(raw.units))
BY InputsAssumption DEF Typed, RawKept

LEMMA TypedInit == Init => Typed
<1> SUFFICES ASSUME Init PROVE Typed
  OBVIOUS
<1>1. raw \in Inputs
  BY DEF Init
<1>2. 1 \in 1 .. Len(raw.units) + 1
  BY <1>1, InputsAssumption, LenProperties
<1>3. DOMAIN values = {}
  BY DEF Init
<1> QED
  BY <1>1, <1>2, <1>3, InputsAssumption DEF Init, Typed, TypeOK, RawKept

LEMMA TypedNext == Typed /\ [Next]_vars => Typed'
<1> SUFFICES ASSUME Typed, [Next]_vars PROVE Typed'
  OBVIOUS
<1>0. raw' = raw
  BY DEF Next, Decode, DecodeList, TakeString, Build, Validate, vars
<1>1. CASE Decode
  <2>1. DecodingOf(raw)[1] \in {"decoded", "invalid_data", "not_applicable", "unsupported_type"}
    <3>1. DecodingOf(raw) \in {Invalid, <<"not_applicable">>, <<"unsupported_type">>}
              \/ DecodingOf(raw)[1] = "decoded"
      BY DEF DecodingOf, SingleString, NumberOf, Decoded, Numbers, Opaque
    <3> QED
      BY <3>1 DEF Invalid
  <2> QED
    BY <1>0, <1>1, <2>1 DEF Decode, Typed, TypeOK, RawKept
<1>2. CASE DecodeList
  BY <1>0, <1>2 DEF DecodeList, Invalid, Decoded, Typed, TypeOK, RawKept
<1>3. CASE TakeString
  <2>1. CASE Acceptable(StringAtStart) /\ start < ListEnd
    <3>0. start \in Nat /\ ListEnd \in Nat
      BY RawIsInput, LenProperties DEF Typed, TypeOK, ListEnd
    <3>1. start' = start + Len(StringAtStart) + 1 /\ values' = Append(values, StringAtStart)
      BY <1>3, <2>1, <3>0 DEF TakeString
    <3>2. start' \in 1 .. Len(raw.units) + 1
      BY <2>1, <3>1, RawIsInput, StringInside DEF Typed, TypeOK
    <3> QED
      BY <1>0, <1>3, <2>1, <3>1, <3>2 DEF TakeString, Typed, TypeOK, RawKept, Acceptable
  <2>2. CASE ~(Acceptable(StringAtStart) /\ start < ListEnd)
    BY <1>0, <1>3, <2>2 DEF TakeString, Invalid, Decoded, Typed, TypeOK, RawKept
  <2> QED
    BY <2>1, <2>2
<1>4. CASE Build
  BY <1>0, <1>4 DEF Build, Typed, TypeOK, RawKept
<1>5. CASE Validate
  BY <1>0, <1>5 DEF Validate, Typed, TypeOK, RawKept
<1>6. CASE UNCHANGED vars
  BY <1>6 DEF vars, Typed, TypeOK, RawKept
<1> QED
  BY <1>1, <1>2, <1>3, <1>4, <1>5, <1>6 DEF Next

\* Every reachable state has the declared types, whatever the data of a list:
\* the walk never leaves it, and it takes none but texts that are not empty.
THEOREM ValuesTyped == Spec => []TypeOK
<1>1. Typed => TypeOK
  BY DEF Typed
<1> QED
  BY <1>1, TypedInit, TypedNext, PTL DEF Spec

-----------------------------------------------------------------------------
(***************************************************************************)
(* The entry                                                               *)
(***************************************************************************)

\* What is decoded fits the type of the value, and an entry that has been built
\* is the one of the native value.
EntryOf ==
    [kind |-> raw.kind, key |-> raw.kind, name |-> NameOf(raw.name),
     prefix |-> PrefixOf(raw), type |-> raw.type,
     content |-> <<raw.units, raw.odd>>, decoding |-> decoding]

Built ==
    /\ decoding[1] = "decoded" => TypeMatches(raw.type, decoding[2][1])
    /\ at = "list" => raw.type = 7
    /\ at \in {"decode", "list", "build"} => entry = NoEntry
    /\ at \in {"validate", "done"} => entry = EntryOf

LEMMA BuiltInit == Init => Built
BY DEF Init, Built

LEMMA BuiltNext == Typed /\ Built /\ [Next]_vars => Built'
<1> SUFFICES ASSUME Typed, Built, [Next]_vars PROVE Built'
  OBVIOUS
<1>0. raw' = raw
  BY DEF Next, Decode, DecodeList, TakeString, Build, Validate, vars
<1>1. CASE Decode
  BY <1>0, <1>1, DecodingMatches DEF Decode, Built
<1>2. CASE DecodeList
  BY <1>0, <1>2 DEF DecodeList, Invalid, Decoded, TypeMatches, Built
<1>3. CASE TakeString
  BY <1>0, <1>3 DEF TakeString, Invalid, Decoded, TypeMatches, Built
<1>4. CASE Build
  BY <1>0, <1>4 DEF Build, Built, EntryOf, PrefixOf
<1>5. CASE Validate
  BY <1>0, <1>5 DEF Validate, Built, EntryOf, PrefixOf
<1>6. CASE UNCHANGED vars
  BY <1>6 DEF vars, Built, EntryOf, PrefixOf
<1> QED
  BY <1>1, <1>2, <1>3, <1>4, <1>5, <1>6 DEF Next

\* The name in the Snapshot is the native name unit by unit, of whatever length
\* and whether it is text or not.
THEOREM NamesKept == Spec => []NameKept
<1>1. Typed /\ Built => NameKept
  <2> SUFFICES ASSUME Typed, Built, entry # NoEntry
               PROVE  NameUnits(entry.name) = raw.name
    BY DEF NameKept
  <2>1. entry = EntryOf
    BY DEF Typed, TypeOK, Built
  <2> QED
    BY <2>1, RawIsInput, NameUnitsOfName DEF EntryOf
<1> QED
  BY <1>1, TypedInit, TypedNext, BuiltInit, BuiltNext, PTL DEF Spec

\* A name with a terminator is refused for it, and any other entry is valid.
LEMMA VerdictOfEntry ==
  ASSUME Typed, Built, Validate
  PROVE  verdict' = IF Zero \in Range(raw.name) THEN "value_name" ELSE "valid"
<1>1. entry = EntryOf
  BY DEF Validate, Built
<1>2. NameUnits(entry.name) = raw.name
  BY <1>1, RawIsInput, NameUnitsOfName DEF EntryOf
<1>3. NameValid(entry.name) <=> Zero \notin Range(raw.name)
  <2>1. NameValid(entry.name) => Zero \notin Range(raw.name)
    BY <1>2 DEF NameValid
  <2>2. Zero \notin Range(raw.name) => NameValid(entry.name)
    BY <1>1, RawIsInput, NameOfIsValid DEF EntryOf
  <2> QED
    BY <2>1, <2>2
<1>4. PrefixValid(entry) /\ entry.key = entry.kind
  BY <1>1, <1>2 DEF EntryOf, PrefixValid, PrefixOf
<1>5. entry.decoding[1] = "decoded" => TypeMatches(entry.type, entry.decoding[2][1])
  BY <1>1 DEF EntryOf, Built
<1> QED
  BY <1>3, <1>4, <1>5 DEF Validate

\* Names and data of any length and of any units: an entry is refused when its
\* name holds a terminator, for its name, and in no other case, so the collector
\* and the validation agree on all other names, on prefixes, types and decodings.
THEOREM EntriesRefusedForTerminator == Spec => []RefusedForTerminatorOnly
<1> DEFINE Inv == Typed /\ Built /\ RefusedForTerminatorOnly
<1>1. Init => Inv
  BY TypedInit, BuiltInit DEF Init, RefusedForTerminatorOnly
<1>2. Inv /\ [Next]_vars => Inv'
  <2> SUFFICES ASSUME Inv, [Next]_vars PROVE RefusedForTerminatorOnly'
    BY TypedNext, BuiltNext
  <2>0. raw' = raw
    BY DEF Next, Decode, DecodeList, TakeString, Build, Validate, vars
  <2>1. CASE Validate
    BY <2>0, <2>1, VerdictOfEntry DEF RefusedForTerminatorOnly
  <2>2. CASE ~Validate
    BY <2>0, <2>2
       DEF Next, Decode, DecodeList, TakeString, Build, vars, RefusedForTerminatorOnly
  <2> QED
    BY <2>1, <2>2
<1> QED
  BY <1>1, <1>2, PTL DEF Spec

-----------------------------------------------------------------------------
(***************************************************************************)
(* The decoding                                                            *)
(***************************************************************************)

\* The first two elements of a sequence.
LEMMA FirstTwo ==
  ASSUME NEW X, NEW s \in Seq(X), Len(s) >= 2
  PROVE  SubSeq(s, 1, 2) = <<s[1], s[2]>>
<1>1. Len(s) \in Nat /\ s[1] \in X /\ s[2] \in X
  BY LenProperties
<1>2. \A i \in 1 .. 2 : s[i] \in X
  BY <1>1
<1>3. /\ SubSeq(s, 1, 2) \in Seq(X) /\ Len(SubSeq(s, 1, 2)) = IF 1 <= 2 THEN 2 - 1 + 1 ELSE 0
      /\ \A i \in 1 .. 2 - 1 + 1 : SubSeq(s, 1, 2)[i] = s[1 + i - 1]
  BY <1>2, SubSeqProperties
<1>4. Len(SubSeq(s, 1, 2)) = 2 /\ SubSeq(s, 1, 2)[1] = s[1] /\ SubSeq(s, 1, 2)[2] = s[2]
  BY <1>3
<1>5. <<s[1], s[2]>> \in Seq(X) /\ Len(<<s[1], s[2]>>) = 2
  BY <1>1
<1>6. \A i \in 1 .. 2 : SubSeq(s, 1, 2)[i] = <<s[1], s[2]>>[i]
  BY <1>4
<1> QED
  BY <1>3, <1>4, <1>5, <1>6, SeqEqual

\* The data ends with two terminators, in the words of ListData and in those of
\* the code.
LEMMA SuffixIsEnd ==
  ASSUME NEW units, units \in Seq(Range(units))
  PROVE  IsSuffix(<<Zero, Zero>>, units) <=> EndsList(units)
<1> DEFINE X == Range(units) \union {Zero}
           z == Reverse(<<Zero, Zero>>)
           r == Reverse(units)
<1>1. PICK n \in Nat : n = Len(units)
  BY LenProperties
<1>2. units \in [1 .. n -> X]
  BY <1>1, LenProperties
<1>3. z = <<Zero, Zero>>
  BY DEF Reverse
<1>4. r = [i \in 1 .. n |-> units[n - i + 1]]
  BY <1>1 DEF Reverse
<1>5. r \in Seq(X) /\ Len(r) = n
  <2>1. \A i \in 1 .. n : n - i + 1 \in 1 .. n
    OBVIOUS
  <2>2. r \in [1 .. n -> X]
    BY <1>2, <1>4, <2>1
  <2> HIDE DEF r
  <2> QED
    BY <2>2
<1> HIDE DEF z, r
<1>6. z \in Seq(X) /\ Len(z) = 2 /\ z[1] = Zero /\ z[2] = Zero
  <2>1. <<Zero, Zero>> \in Seq(X) /\ Len(<<Zero, Zero>>) = 2
    OBVIOUS
  <2> QED
    BY <1>3, <2>1
<1> HIDE DEF X
<1>7. IsSuffix(<<Zero, Zero>>, units) <=> 2 <= n /\ SubSeq(z, 1, 2) = SubSeq(r, 1, 2)
  BY <1>5, <1>6 DEF IsSuffix, IsPrefix, z, r
<1>8. ASSUME 2 <= n
      PROVE  SubSeq(z, 1, 2) = SubSeq(r, 1, 2) <=> units[n] = Zero /\ units[n - 1] = Zero
  <2>1. SubSeq(r, 1, 2) = <<r[1], r[2]>> /\ SubSeq(z, 1, 2) = <<z[1], z[2]>>
    BY <1>5, <1>6, <1>8, FirstTwo
  <2>2. 1 \in 1 .. n /\ 2 \in 1 .. n /\ n - 1 + 1 = n /\ n - 2 + 1 = n - 1
    BY <1>8
  <2>3. r[1] = units[n] /\ r[2] = units[n - 1]
    BY <1>4, <2>2
  <2> QED
    BY <1>6, <2>1, <2>3
<1>9. EndsList(units) <=> 2 <= n /\ units[n] = Zero /\ units[n - 1] = Zero
  BY <1>1 DEF EndsList
<1> QED
  BY <1>7, <1>8, <1>9

\* A sequence is what is before its last element, and that element.
LEMMA FrontAndLast ==
  ASSUME NEW X, NEW s \in Seq(X), s # <<>>
  PROVE  Append(Front(s), Last(s)) = s
<1>1. PICK n \in Nat : n = Len(s) /\ n > 0 /\ \A i \in 1 .. n : s[i] \in X
  BY LenProperties, EmptySeq
<1>2. PICK m \in Nat : m = n - 1
  BY <1>1
<1>3. /\ SubSeq(s, 1, m) \in Seq(X) /\ Len(SubSeq(s, 1, m)) = m
      /\ \A i \in 1 .. m : SubSeq(s, 1, m)[i] = s[i]
  <2>1. \A i \in 1 .. m : s[i] \in X
    BY <1>1, <1>2
  <2>2. /\ SubSeq(s, 1, m) \in Seq(X)
        /\ Len(SubSeq(s, 1, m)) = IF 1 <= m THEN m - 1 + 1 ELSE 0
        /\ \A i \in 1 .. m - 1 + 1 : SubSeq(s, 1, m)[i] = s[1 + i - 1]
    BY <1>2, <2>1, SubSeqProperties
  <2> QED
    BY <1>2, <2>2
<1>4. Front(s) = SubSeq(s, 1, m) /\ Last(s) = s[n] /\ s[n] \in X
  BY <1>1, <1>2 DEF Front, Last
<1> DEFINE f == SubSeq(s, 1, m)
           t == Append(f, s[n])
<1> HIDE DEF f
<1>5. f \in Seq(X) /\ Len(f) = m /\ \A i \in 1 .. m : f[i] = s[i]
  BY <1>3 DEF f
<1>6. /\ t \in Seq(X) /\ Len(t) = m + 1
      /\ \A i \in 1 .. m : t[i] = f[i]
      /\ t[m + 1] = s[n]
  BY <1>4, <1>5, AppendProperties
<1> HIDE DEF t
<1>7. Len(t) = n /\ \A i \in 1 .. n : t[i] = s[i]
  BY <1>2, <1>5, <1>6
<1>8. t = s
  BY <1>1, <1>6, <1>7, SeqEqual
<1> QED
  BY <1>4, <1>8 DEF t, f

\* What is decoded from data that is no list gives the data again.
LEMMA DecodingReversible ==
  ASSUME NEW value, value.units \in Seq(Range(value.units)), value.odd \in BOOLEAN,
         DecodingOf(value)[1] = "decoded"
  PROVE  /\ ~value.odd
         /\ value.units = Encoding(DecodingOf(value)[2][1], DecodingOf(value)[2][2])
<1>0. Invalid[1] # "decoded"
  BY DEF Invalid
<1>1. CASE value.type \in {1, 2}
  <2> DEFINE kind == IF value.type = 1 THEN "string" ELSE "expand"
             u == value.units
  <2>1. DecodingOf(value) = IF value.odd THEN Invalid ELSE SingleString(kind, u)
    BY <1>1 DEF DecodingOf, Numbers, Opaque
  <2>2. ~value.odd /\ u # <<>> /\ Last(u) = Zero /\ DecodingOf(value) = Decoded(kind, Front(u))
    BY <1>0, <2>1 DEF SingleString
  <2>3. Append(Front(u), Zero) = u
    BY <2>2, FrontAndLast
  <2>4. DecodingOf(value)[2][1] = kind /\ DecodingOf(value)[2][2] = Front(u)
    BY <2>2 DEF Decoded
  <2> QED
    BY <2>2, <2>3, <2>4 DEF Encoding
<1>2. CASE value.type \in Numbers
  <2>1. ~value.odd /\ DecodingOf(value) = NumberOf(value.type, value.units)
    BY <1>0, <1>2 DEF DecodingOf, Numbers
  <2> QED
    BY <1>2, <2>1 DEF NumberOf, Decoded, Numbers, Encoding
<1>3. CASE value.type \notin {1, 2} \union Numbers
  BY <1>3 DEF DecodingOf
<1> QED
  BY <1>1, <1>2, <1>3

\* What native strings of a list look like.
Terminated(list) == [k \in DOMAIN list |-> Append(list[k], Zero)]

Units == Range(raw.units) \union {Zero}

\* The walk over a list has taken all that is before the start of the next
\* string, it would come out of its strings again, and it is text in which two
\* terminators are never together.
WalkInv ==
    /\ raw.type = 7 /\ ~raw.odd /\ EndsList(raw.units) /\ raw.units # <<Zero, Zero>>
    /\ start \in 1 .. ListEnd
    /\ values \in Seq(Seq(Units))
    /\ values = <<>> <=> start = 1
    /\ SubSeq(raw.units, 1, start - 1) = FlattenSeq(Terminated(values))
    /\ start > 1 => raw.units[1] # Zero /\ raw.units[start - 1] = Zero
    /\ \A k \in 1 .. start - 2 : ~(raw.units[k] = Zero /\ raw.units[k + 1] = Zero)
    /\ \A k \in 1 .. start - 1 :
           /\ raw.units[k] = High => raw.units[k + 1] = Low
           /\ raw.units[k] = Low => k > 1 /\ raw.units[k - 1] = High

\* The string at the start ends before the first terminator from there on.
LEMMA StringIsNext ==
  ASSUME raw.units \in Seq(Range(raw.units)), start \in Nat \ {0}, Terminators # {}
  PROVE  \E m \in start .. ListEnd - 1 :
            /\ raw.units[m] = Zero /\ \A k \in start .. m - 1 : raw.units[k] # Zero
            /\ StringAtStart = SubSeq(raw.units, start, m - 1)
            /\ StringAtStart \in Seq(Range(raw.units)) /\ Len(StringAtStart) = m - start
            /\ \A i \in 1 .. m - start : StringAtStart[i] = raw.units[start + i - 1]
<1>1. ListEnd \in Nat /\ ListEnd = Len(raw.units)
      /\ \A k \in 1 .. ListEnd : raw.units[k] \in Range(raw.units)
  BY LenProperties DEF ListEnd
<1>2. Terminators \in SUBSET Nat
  BY <1>1 DEF Terminators
<1>3. PICK m \in Terminators : m = Min(Terminators) /\ \A k \in Terminators : m <= k
  BY <1>2, MinIsLeast
<1>4. m \in start .. ListEnd - 1 /\ raw.units[m] = Zero
  BY <1>3 DEF Terminators
<1>5. \A k \in start .. m - 1 : raw.units[k] # Zero
  BY <1>1, <1>3, <1>4 DEF Terminators
<1>6. StringAtStart = SubSeq(raw.units, start, m - 1)
  BY <1>3 DEF StringAtStart
<1>7. PICK l \in Nat : l = m - 1 /\ l <= ListEnd
  BY <1>1, <1>4
<1>8. /\ SubSeq(raw.units, start, l) \in Seq(Range(raw.units))
      /\ Len(SubSeq(raw.units, start, l)) = IF start <= l THEN l - start + 1 ELSE 0
      /\ \A i \in 1 .. l - start + 1 : SubSeq(raw.units, start, l)[i] = raw.units[start + i - 1]
  <2>1. \A k \in start .. l : raw.units[k] \in Range(raw.units)
    BY <1>1, <1>7
  <2>2. start \in Int /\ l \in Int
    BY <1>7
  <2> QED
    BY <2>1, <2>2, SubSeqProperties
<1>9. l - start + 1 = m - start /\ (start > l => m - start = 0)
  BY <1>4, <1>7
<1> QED
  BY <1>4, <1>5, <1>6, <1>7, <1>8, <1>9

\* The whole of the list has been walked.
LEMMA WalkedIsList ==
  ASSUME raw.units \in Seq(Range(raw.units)), WalkInv, start >= ListEnd
  PROVE  ListData(raw.units) /\ raw.units = Encoding("multi", values)
<1> DEFINE u == raw.units
<1>1. PICK n \in Nat : n = Len(u) /\ n >= 2 /\ u[n] = Zero
  BY LenProperties DEF WalkInv, EndsList
<1>2. start = n /\ values # <<>>
  BY <1>1 DEF WalkInv, ListEnd
<1>3. WellFormed(u)
  <2>1. DOMAIN u = 1 .. n
    BY <1>1, LenProperties
  <2>2. ASSUME NEW k \in 1 .. n
        PROVE  /\ u[k] = High => k < n /\ u[k + 1] = Low
               /\ u[k] = Low => k > 1 /\ u[k - 1] = High
    <3>1. CASE k = n
      BY <1>1, <3>1 DEF Zero, High, Low
    <3>2. CASE k \in 1 .. n - 1
      BY <1>2, <3>2 DEF WalkInv
    <3> QED
      BY <3>1, <3>2
  <2> QED
    BY <1>1, <2>1, <2>2 DEF WellFormed
<1>4. IsSuffix(<<Zero, Zero>>, u)
  BY SuffixIsEnd DEF WalkInv
<1>5. ListData(u)
  BY <1>1, <1>2, <1>3, <1>4 DEF WalkInv, ListData
<1>6. Front(u) = FlattenSeq(Terminated(values)) /\ Last(u) = Zero
  BY <1>1, <1>2 DEF WalkInv, Front, Last
<1>7. u = Append(FlattenSeq(Terminated(values)), Zero)
  <2>1. u # <<>>
    BY <1>1
  <2> QED
    BY <1>6, <2>1, FrontAndLast
<1> QED
  BY <1>2, <1>5, <1>7 DEF Encoding, Terminated

\* What the walk refuses is no list.
LEMMA RefusedIsNoList ==
  ASSUME raw.units \in Seq(Range(raw.units)), WalkInv, start < ListEnd,
         ~Acceptable(StringAtStart)
  PROVE  ~ListData(raw.units)
<1> DEFINE u == raw.units
<1> SUFFICES ASSUME ListData(u) PROVE FALSE
  OBVIOUS
<1>1. PICK n \in Nat : /\ n = Len(u) /\ n = ListEnd /\ n >= 2 /\ u[n - 1] = Zero
                       /\ start \in 1 .. n - 1
  BY LenProperties DEF WalkInv, EndsList, ListEnd
<1>2. /\ WellFormed(u) /\ u[1] # Zero
      /\ \A k \in 1 .. n - 2 : ~(u[k] = Zero /\ u[k + 1] = Zero)
  BY <1>1 DEF WalkInv, ListData
<1>3. n - 1 \in Terminators
  BY <1>1 DEF Terminators
<1>4. PICK m \in start .. n - 1 :
            /\ u[m] = Zero /\ \A k \in start .. m - 1 : u[k] # Zero
            /\ StringAtStart = SubSeq(u, start, m - 1)
            /\ StringAtStart \in Seq(Range(u)) /\ Len(StringAtStart) = m - start
            /\ \A i \in 1 .. m - start : StringAtStart[i] = u[start + i - 1]
  BY <1>1, <1>3, StringIsNext
<1>5. start = 1 \/ (start > 1 /\ u[start - 1] = Zero)
  <2>1. start > 1 => u[start - 1] = Zero
    BY DEF WalkInv
  <2> QED
    BY <1>1, <2>1
<1>6. u[start] # Zero
  <2>1. CASE start > 1
    <3>1. start - 1 \in 1 .. n - 2 /\ start - 1 + 1 = start
      BY <1>1, <2>1
    <3> QED
      BY <1>2, <1>5, <2>1, <3>1
  <2> QED
    BY <1>1, <1>2, <2>1
<1>7. m > start
  BY <1>1, <1>4, <1>6
<1>8. PICK t \in Seq(Range(u)) : /\ t = StringAtStart /\ Len(t) = m - start
                                 /\ \A i \in 1 .. m - start : t[i] = u[start + i - 1]
  BY <1>4
<1>9. t # <<>> /\ DOMAIN t = 1 .. m - start
  BY <1>1, <1>7, <1>8, LenProperties
<1>10. DOMAIN u = 1 .. n
  BY <1>1, LenProperties
<1>11. ASSUME NEW i \in 1 .. m - start
       PROVE  /\ t[i] = High => i < m - start /\ t[i + 1] = Low
              /\ t[i] = Low => i > 1 /\ t[i - 1] = High
  <2>1. PICK k \in 1 .. n : k = start + i - 1 /\ k < m /\ t[i] = u[k]
    <3>1. start + i - 1 \in 1 .. n /\ start + i - 1 < m
      BY <1>1, <1>7
    <3>2. t[i] = u[start + i - 1]
      BY <1>8
    <3> QED
      BY <3>1, <3>2
  <2>2. /\ u[k] = High => k < n /\ u[k + 1] = Low
        /\ u[k] = Low => k > 1 /\ u[k - 1] = High
    BY <1>1, <1>2, <1>10 DEF WellFormed
  <2>3. ASSUME t[i] = High
        PROVE  i < m - start /\ t[i + 1] = Low
    <3>1. u[k + 1] = Low /\ u[m] = Zero
      BY <1>4, <2>1, <2>2, <2>3
    <3>2. k + 1 # m
      BY <3>1 DEF Zero, Low
    <3>3. i + 1 \in 1 .. m - start /\ start + (i + 1) - 1 = k + 1
      BY <1>1, <2>1, <3>2
    <3> QED
      BY <1>1, <1>8, <3>1, <3>3
  <2>4. ASSUME t[i] = Low
        PROVE  i > 1 /\ t[i - 1] = High
    <3>1. k > 1 /\ u[k - 1] = High
      BY <2>1, <2>2, <2>4
    <3>2. i # 1
      <4> SUFFICES ASSUME i = 1 PROVE FALSE
        OBVIOUS
      <4>1. k = start
        BY <1>1, <2>1
      <4> QED
        BY <1>5, <3>1, <4>1 DEF Zero, High
    <3>3. i - 1 \in 1 .. m - start /\ start + (i - 1) - 1 = k - 1 /\ i > 1
      BY <1>1, <2>1, <3>2
    <3> QED
      BY <1>8, <3>1, <3>3
  <2> QED
    BY <2>3, <2>4
<1>12. WellFormed(t)
  BY <1>8, <1>9, <1>11 DEF WellFormed
<1> QED
  BY <1>8, <1>9, <1>12 DEF Acceptable

\* A string with its terminator.
LEMMA ZeroPut ==
  ASSUME NEW x \in Seq(Units)
  PROVE  /\ Append(x, Zero) \in Seq(Units) /\ Len(Append(x, Zero)) = Len(x) + 1
         /\ \A i \in 1 .. Len(x) : Append(x, Zero)[i] = x[i]
         /\ Append(x, Zero)[Len(x) + 1] = Zero
<1>1. Zero \in Units
  BY DEF Units
<1> QED
  BY <1>1, AppendProperties

\* One string more comes out of the strings that were taken.
LEMMA StringPutBehind ==
  ASSUME raw.units \in Seq(Range(raw.units)), start \in Nat \ {0},
         NEW list \in Seq(Seq(Units)), NEW t \in Seq(Units), NEW m \in start .. Len(raw.units),
         raw.units[m] = Zero, Len(t) = m - start,
         \A i \in 1 .. m - start : t[i] = raw.units[start + i - 1],
         SubSeq(raw.units, 1, start - 1) = FlattenSeq(Terminated(list))
  PROVE  SubSeq(raw.units, 1, m) = FlattenSeq(Terminated(Append(list, t)))
<1> DEFINE u == raw.units
           seqs == Terminated(list)
           more == Terminated(Append(list, t))
           tz == Append(t, Zero)
           b == SubSeq(u, 1, start - 1)
           c == SubSeq(u, 1, m)
<1>1. PICK n \in Nat : n = Len(list) /\ list \in [1 .. n -> Seq(Units)]
  BY LenProperties
<1>2. /\ Len(Append(list, t)) = n + 1 /\ DOMAIN Append(list, t) = 1 .. n + 1
      /\ \A k \in 1 .. n : Append(list, t)[k] = list[k]
      /\ Append(list, t)[n + 1] = t
  BY <1>1, AppendProperties, LenProperties
<1>3. Zero \in Units /\ m \in Nat /\ Len(u) \in Nat /\ m <= Len(u)
      /\ \A i \in 1 .. Len(u) : u[i] \in Units
  BY LenProperties DEF Units
<1>4. seqs \in [1 .. n -> Seq(Units)] /\ \A k \in 1 .. n : seqs[k] = Append(list[k], Zero)
  BY <1>1, ZeroPut DEF Terminated
<1>5. /\ more \in [1 .. n + 1 -> Seq(Units)]
      /\ \A k \in 1 .. n : more[k] = seqs[k]
      /\ more[n + 1] = tz
  <2>1. \A k \in 1 .. n + 1 : more[k] = Append(Append(list, t)[k], Zero)
    BY <1>2 DEF Terminated
  <2>2. \A k \in 1 .. n + 1 : Append(list, t)[k] \in Seq(Units)
    BY <1>1, <1>2
  <2>3. \A k \in 1 .. n + 1 : more[k] \in Seq(Units)
    <3> SUFFICES ASSUME NEW k \in 1 .. n + 1 PROVE more[k] \in Seq(Units)
      OBVIOUS
    <3>1. PICK x \in Seq(Units) : x = Append(list, t)[k]
      BY <2>2
    <3> QED
      BY <2>1, <3>1, ZeroPut
  <2>4. DOMAIN more = 1 .. n + 1 /\ more = [k \in DOMAIN more |-> more[k]]
    BY <1>2 DEF Terminated
  <2>5. \A k \in 1 .. n : k \in 1 .. n + 1
    BY <1>1
  <2>6. n + 1 \in 1 .. n + 1
    BY <1>1
  <2> HIDE DEF seqs, more
  <2>7. more \in [1 .. n + 1 -> Seq(Units)]
    BY <2>3, <2>4
  <2>8. \A k \in 1 .. n : more[k] = seqs[k]
    BY <1>2, <1>4, <2>1, <2>5
  <2> QED
    BY <1>2, <2>1, <2>6, <2>7, <2>8
<1> HIDE DEF seqs, more
<1>6. FlattenSeq(more) = FlattenSeq(seqs) \o tz
  <2>1. FlattenSeq(more) = FlattenSeq(seqs) \o more[n + 1]
    <3> HIDE DEF tz
    <3>1. \A s \in [1 .. n -> Seq(Units)], w \in [1 .. n + 1 -> Seq(Units)] :
            (\A k \in 1 .. n : w[k] = s[k]) => FlattenSeq(w) = FlattenSeq(s) \o w[n + 1]
      <4>1. n \in Nat
        BY <1>1
      <4> QED
        BY <4>1, FlattenAppend, Zenon
    <3> QED
      BY <1>4, <1>5, <3>1
  <2> QED
    BY <1>5, <2>1
<1>7. FlattenSeq(seqs) = b
  BY DEF seqs
<1>8. /\ tz \in Seq(Units) /\ Len(tz) = m - start + 1
      /\ \A i \in 1 .. m - start : tz[i] = t[i]
      /\ tz[m - start + 1] = Zero
  <2>1. /\ tz \in Seq(Units) /\ Len(tz) = Len(t) + 1
        /\ \A i \in 1 .. Len(t) : tz[i] = t[i]
        /\ tz[Len(t) + 1] = Zero
    BY ZeroPut
  <2> QED
    BY <2>1
<1> HIDE DEF tz
<1>9. /\ b \in Seq(Units) /\ Len(b) = start - 1
      /\ \A i \in 1 .. start - 1 : b[i] = u[i]
  <2>1. PICK l \in Nat : l = start - 1 /\ l <= Len(u)
    BY <1>3
  <2>2. \A i \in 1 .. l : u[i] \in Units
    BY <1>3, <2>1
  <2>3. /\ SubSeq(u, 1, l) \in Seq(Units)
        /\ Len(SubSeq(u, 1, l)) = IF 1 <= l THEN l - 1 + 1 ELSE 0
        /\ \A i \in 1 .. l - 1 + 1 : SubSeq(u, 1, l)[i] = u[1 + i - 1]
    BY <2>2, SubSeqProperties
  <2> QED
    BY <2>1, <2>3
<1>10. /\ c \in Seq(Units) /\ Len(c) = m
       /\ \A i \in 1 .. m : c[i] = u[i]
  <2>1. \A i \in 1 .. m : u[i] \in Units
    BY <1>3
  <2>2. /\ SubSeq(u, 1, m) \in Seq(Units)
        /\ Len(SubSeq(u, 1, m)) = IF 1 <= m THEN m - 1 + 1 ELSE 0
        /\ \A i \in 1 .. m - 1 + 1 : SubSeq(u, 1, m)[i] = u[1 + i - 1]
    BY <1>3, <2>1, SubSeqProperties
  <2> QED
    BY <1>3, <2>2
<1> HIDE DEF b, c
<1>11. /\ b \o tz \in Seq(Units) /\ Len(b \o tz) = start - 1 + (m - start + 1)
       /\ \A i \in 1 .. start - 1 + (m - start + 1) :
              (b \o tz)[i] = IF i <= start - 1 THEN b[i] ELSE tz[i - (start - 1)]
  <2>1. /\ b \o tz \in Seq(Units) /\ Len(b \o tz) = Len(b) + Len(tz)
        /\ \A i \in 1 .. Len(b) + Len(tz) :
              (b \o tz)[i] = IF i <= Len(b) THEN b[i] ELSE tz[i - Len(b)]
    BY <1>8, <1>9, ConcatProperties
  <2> QED
    BY <1>8, <1>9, <2>1
<1>12. start - 1 + (m - start + 1) = m
  BY <1>3
<1>13. ASSUME NEW i \in 1 .. m
       PROVE  (b \o tz)[i] = u[i]
  <2>1. CASE i <= start - 1
    <3>1. i \in 1 .. start - 1
      BY <1>3, <2>1
    <3> QED
      BY <1>9, <1>11, <1>12, <2>1, <3>1
  <2>2. CASE i = m
    <3>1. ~(i <= start - 1) /\ i - (start - 1) = m - start + 1
      BY <1>3, <2>2
    <3>2. (b \o tz)[i] = tz[i - (start - 1)]
      BY <1>11, <1>12, <3>1
    <3> QED
      BY <1>8, <2>2, <3>1, <3>2
  <2>3. CASE i > start - 1 /\ i # m
    <3>1. PICK j \in 1 .. m - start : j = i - (start - 1) /\ start + j - 1 = i
      <4>1. i - (start - 1) \in 1 .. m - start /\ start + (i - (start - 1)) - 1 = i
        BY <1>3, <2>3
      <4> QED
        BY <4>1
    <3>2. (b \o tz)[i] = tz[j]
      <4>1. ~(i <= start - 1)
        BY <1>3, <2>3
      <4> QED
        BY <1>11, <1>12, <3>1, <4>1
    <3>3. t[j] = u[i]
      BY <3>1
    <3> QED
      BY <1>8, <3>1, <3>2, <3>3
  <2>4. i <= start - 1 \/ i > start - 1
    BY <1>3
  <2> QED
    BY <2>1, <2>2, <2>3, <2>4
<1>14. b \o tz = c
  <2> DEFINE bt == b \o tz
  <2>1. bt \in Seq(Units) /\ Len(bt) = m /\ \A i \in 1 .. m : bt[i] = c[i]
    BY <1>10, <1>11, <1>12, <1>13
  <2> HIDE DEF bt
  <2>2. bt = c
    BY <1>10, <2>1, SeqEqual
  <2> QED
    BY <2>2 DEF bt
<1> QED
  BY <1>6, <1>7, <1>14 DEF c, more

\* A turn of the loop that takes a string keeps the invariant of the walk.
LEMMA WalkGoesOn ==
  ASSUME raw.units \in Seq(Range(raw.units)), WalkInv, start < ListEnd,
         Acceptable(StringAtStart), raw' = raw,
         values' = Append(values, StringAtStart),
         start' = start + Len(StringAtStart) + 1
  PROVE  WalkInv'
<1> DEFINE u == raw.units
<1>1. PICK n \in Nat : n = Len(u) /\ n = ListEnd /\ start \in 1 .. n - 1
  BY LenProperties DEF WalkInv, ListEnd
<1>2. Terminators # {} /\ StringAtStart # <<>> /\ WellFormed(StringAtStart)
  BY DEF Acceptable, StringAtStart
<1>3. PICK m \in start .. n - 1 :
            /\ u[m] = Zero /\ \A k \in start .. m - 1 : u[k] # Zero
            /\ StringAtStart = SubSeq(u, start, m - 1)
            /\ StringAtStart \in Seq(Range(u)) /\ Len(StringAtStart) = m - start
            /\ \A i \in 1 .. m - start : StringAtStart[i] = u[start + i - 1]
  <2>1. start \in Nat \ {0}
    BY <1>1
  <2> QED
    BY <1>1, <1>2, <2>1, StringIsNext
<1>4. PICK t \in Seq(Range(u)) : /\ t = StringAtStart /\ Len(t) = m - start
                                 /\ \A i \in 1 .. m - start : t[i] = u[start + i - 1]
  BY <1>3
<1>5. m > start /\ DOMAIN t = 1 .. m - start
  <2>1. Len(t) # 0
    BY <1>2, <1>4, EmptySeq
  <2> QED
    BY <1>1, <1>4, <2>1, LenProperties
<1>6. start' = m + 1 /\ values' = Append(values, t) /\ m \in Nat
  BY <1>1, <1>3, <1>4
<1>7. u[start] # Zero
  BY <1>1, <1>3, <1>5
<1>8. t \in Seq(Units) /\ values \in Seq(Seq(Units)) /\ Units' = Units
  <2>1. Range(u) \in SUBSET Units
    BY DEF Units
  <2>2. t \in Seq(Units)
    BY <1>4, <2>1
  <2> QED
    BY <2>2 DEF WalkInv, Units
<1>9. values' \in Seq(Seq(Units)) /\ values' # <<>>
  BY <1>6, <1>8, AppendProperties
<1>10. SubSeq(u, 1, m) = FlattenSeq(Terminated(values'))
  <2>1. SubSeq(u, 1, start - 1) = FlattenSeq(Terminated(values))
    BY DEF WalkInv
  <2>2. m \in start .. Len(u) /\ start \in Nat \ {0}
    BY <1>1, <1>3
  <2>3. u[m] = Zero
    BY <1>3
  <2>4. SubSeq(u, 1, m) = FlattenSeq(Terminated(Append(values, t)))
    BY <1>4, <1>8, <2>1, <2>2, <2>3, StringPutBehind
  <2> QED
    BY <1>6, <2>4
<1>11. u[1] # Zero
  <2>1. CASE start = 1
    BY <1>7, <2>1
  <2>2. CASE start > 1
    BY <2>2 DEF WalkInv
  <2> QED
    BY <1>1, <2>1, <2>2
<1>12. ASSUME NEW k \in 1 .. m - 1
       PROVE  ~(u[k] = Zero /\ u[k + 1] = Zero)
  <2>1. CASE k \in 1 .. start - 2
    BY <2>1 DEF WalkInv
  <2>2. CASE k = start - 1
    <3>1. k + 1 = start
      BY <1>1, <2>2
    <3> QED
      BY <1>7, <3>1
  <2>3. CASE k \in start .. m - 1
    BY <1>3, <2>3
  <2>4. k \in 1 .. start - 2 \/ k = start - 1 \/ k \in start .. m - 1
    BY <1>1, <1>6
  <2> QED
    BY <2>1, <2>2, <2>3, <2>4
<1>13. ASSUME NEW k \in 1 .. m
       PROVE  /\ u[k] = High => u[k + 1] = Low
              /\ u[k] = Low => k > 1 /\ u[k - 1] = High
  <2>1. CASE k \in 1 .. start - 1
    BY <2>1 DEF WalkInv
  <2>2. CASE k \in start .. m - 1
    <3>1. PICK i \in 1 .. m - start : i = k - start + 1 /\ start + i - 1 = k
      <4>1. k - start + 1 \in 1 .. m - start /\ start + (k - start + 1) - 1 = k
        BY <1>1, <1>6, <2>2
      <4> QED
        BY <4>1
    <3>2. t[i] = u[k]
      BY <1>4, <3>1
    <3>3. /\ t[i] = High => i < m - start /\ t[i + 1] = Low
          /\ t[i] = Low => i > 1 /\ t[i - 1] = High
      BY <1>2, <1>4, <1>5 DEF WellFormed
    <3>4. ASSUME u[k] = High
          PROVE  u[k + 1] = Low
      <4>1. i + 1 \in 1 .. m - start /\ start + (i + 1) - 1 = k + 1
        BY <1>1, <1>6, <2>2, <3>1, <3>2, <3>3, <3>4
      <4> QED
        BY <1>4, <3>2, <3>3, <3>4, <4>1
    <3>5. ASSUME u[k] = Low
          PROVE  k > 1 /\ u[k - 1] = High
      <4>1. i - 1 \in 1 .. m - start /\ start + (i - 1) - 1 = k - 1 /\ k > 1
        BY <1>1, <1>6, <2>2, <3>1, <3>2, <3>3, <3>5
      <4> QED
        BY <1>4, <3>2, <3>3, <3>5, <4>1
    <3> QED
      BY <3>4, <3>5
  <2>3. CASE k = m
    BY <1>3, <2>3 DEF Zero, High, Low
  <2>4. k \in 1 .. start - 1 \/ k \in start .. m - 1 \/ k = m
    BY <1>1, <1>6
  <2> QED
    BY <2>1, <2>2, <2>3, <2>4
<1>14. raw'.units = u /\ start' - 1 = m /\ start' - 2 = m - 1 /\ start' > 1 /\ start' # 1
  <2>1. m + 1 - 1 = m /\ m + 1 - 2 = m - 1 /\ m + 1 > 1 /\ m + 1 # 1
    BY <1>1, <1>5, <1>6
  <2> QED
    BY <1>6, <2>1
<1>15. start' \in 1 .. ListEnd'
  <2>1. ListEnd' = n
    BY <1>1 DEF ListEnd
  <2> QED
    BY <1>1, <1>3, <1>6, <2>1
<1>16. /\ raw'.type = 7 /\ ~raw'.odd /\ EndsList(raw'.units) /\ raw'.units # <<Zero, Zero>>
  BY DEF WalkInv
<1>17. values' \in Seq(Seq(Units'))
  BY <1>8, <1>9
<1>18. SubSeq(raw'.units, 1, start' - 1) = FlattenSeq(Terminated(values'))
  BY <1>10, <1>14
<1> QED
  BY <1>3, <1>9, <1>11, <1>12, <1>13, <1>14, <1>15, <1>16, <1>17, <1>18 DEF WalkInv

-----------------------------------------------------------------------------
\* A walk that goes on has its invariant, nothing is decoded before it ends, and
\* what is decoded then is what Lossless says of it.
DecodedInv ==
    /\ at = "list" => WalkInv
    /\ at \in {"decode", "list"} => decoding = <<"none">>
    /\ at = "decode" => start = 1 /\ values = <<>>
    /\ decoding[1] = "decoded" =>
          ~raw.odd /\ raw.units = Encoding(decoding[2][1], decoding[2][2])
    /\ at \in {"build", "validate", "done"} /\ raw.type = 7 =>
          (decoding[1] = "decoded" <=> ~raw.odd /\ ListData(raw.units))

LEMMA DecodedInit == Init => DecodedInv
BY DEF Init, DecodedInv

\* The end of a list is looked at before its strings are.
LEMMA WalkBegins ==
  ASSUME raw.units \in Seq(Range(raw.units)), at = "decode", DecodedInv,
         raw.type = 7, ~raw.odd, EndsList(raw.units), raw.units # <<Zero, Zero>>
  PROVE  WalkInv
<1>1. start = 1 /\ values = <<>>
  BY DEF DecodedInv
<1>2. ListEnd \in Nat /\ ListEnd >= 2
  BY LenProperties DEF EndsList, ListEnd
<1>3. Terminated(values) = <<>>
  BY <1>1 DEF Terminated
<1>4. FlattenSeq(<<>>) = <<>>
  BY DEF FlattenSeq
<1>5. SubSeq(raw.units, 1, start - 1) = <<>>
  BY <1>1, SubSeqEmpty
<1>6. values \in Seq(Seq(Units))
  BY <1>1
<1>7. /\ start \in 1 .. ListEnd /\ ~(start > 1)
      /\ \A k \in 1 .. start - 2 : FALSE
      /\ \A k \in 1 .. start - 1 : FALSE
  BY <1>1, <1>2
<1>8. values = <<>> <=> start = 1
  BY <1>1
<1> QED
  BY <1>3, <1>4, <1>5, <1>6, <1>7, <1>8 DEF WalkInv

\* Lists of data that are decided without a walk.
LEMMA ShortLists ==
  ASSUME raw.units \in Seq(Range(raw.units))
  PROVE  /\ ~EndsList(raw.units) => ~ListData(raw.units)
         /\ raw.units = <<Zero, Zero>> =>
                ListData(raw.units) /\ raw.units = Encoding("multi", <<>>)
<1>1. raw.units = <<Zero, Zero>> => EndsList(raw.units)
  BY DEF EndsList
<1>2. ~EndsList(raw.units) => ~ListData(raw.units)
  BY <1>1, SuffixIsEnd DEF ListData
<1>3. ListData(<<Zero, Zero>>)
  BY DEF ListData, WellFormed, Zero, High, Low
<1>4. <<Zero, Zero>> = Encoding("multi", <<>>)
  BY DEF Encoding
<1> QED
  BY <1>2, <1>3, <1>4

LEMMA DecodedNext == Typed /\ DecodedInv /\ [Next]_vars => DecodedInv'
<1> SUFFICES ASSUME Typed, DecodedInv, [Next]_vars PROVE DecodedInv'
  OBVIOUS
<1>0. raw' = raw
  BY DEF Next, Decode, DecodeList, TakeString, Build, Validate, vars
<1>1. raw.units \in Seq(Range(raw.units)) /\ raw.odd \in BOOLEAN
  BY InputsAssumption DEF Typed, RawKept
<1>2. CASE Decode
  <2>1. decoding' = DecodingOf(raw) /\ at' = "build" /\ raw.type # 7
    BY <1>2 DEF Decode
  <2>2. decoding'[1] = "decoded" =>
            ~raw.odd /\ raw.units = Encoding(decoding'[2][1], decoding'[2][2])
    BY <1>1, <2>1, DecodingReversible
  <2> QED
    BY <1>0, <2>1, <2>2 DEF DecodedInv
<1>3. CASE DecodeList
  <2>0. at = "decode" /\ raw.type = 7 /\ UNCHANGED <<values, start>>
    BY <1>3 DEF DecodeList
  <2>1. CASE (raw.odd \/ ~EndsList(raw.units)) /\ decoding' = Invalid /\ at' = "build"
    <3>1. decoding'[1] # "decoded"
      BY <2>1 DEF Invalid
    <3>2. ~(~raw.odd /\ ListData(raw.units))
      BY <1>1, <2>1, ShortLists
    <3> QED
      BY <1>0, <2>1, <3>1, <3>2 DEF DecodedInv
  <2>2. CASE /\ ~raw.odd /\ raw.units = <<Zero, Zero>>
             /\ decoding' = Decoded("multi", <<>>) /\ at' = "build"
    <3>1. decoding'[1] = "decoded" /\ decoding'[2][1] = "multi" /\ decoding'[2][2] = <<>>
      BY <2>2 DEF Decoded
    <3>2. ListData(raw.units) /\ raw.units = Encoding("multi", <<>>)
      BY <1>1, <2>2, ShortLists
    <3> QED
      BY <1>0, <2>2, <3>1, <3>2 DEF DecodedInv
  <2>3. CASE /\ ~raw.odd /\ EndsList(raw.units) /\ raw.units # <<Zero, Zero>>
             /\ at' = "list" /\ UNCHANGED decoding
    <3>1. WalkInv
      BY <1>1, <2>0, <2>3, WalkBegins
    <3>2. WalkInv'
      BY <1>0, <2>0, <3>1 DEF WalkInv, ListEnd, Units
    <3>3. decoding' = <<"none">>
      BY <2>0, <2>3 DEF DecodedInv
    <3>4. decoding'[1] # "decoded"
      BY <3>3
    <3> QED
      BY <2>3, <3>2, <3>3, <3>4 DEF DecodedInv
  <2> QED
    BY <1>3, <2>1, <2>2, <2>3 DEF DecodeList
<1>4. CASE TakeString
  <2>0. at = "list" /\ WalkInv /\ decoding = <<"none">> /\ decoding[1] # "decoded"
    BY <1>4 DEF TakeString, DecodedInv
  <2>1. raw.type = 7 /\ ~raw.odd /\ start \in Nat /\ ListEnd \in Nat
    BY <1>1, <2>0, LenProperties DEF WalkInv, ListEnd
  <2>2. CASE /\ start < ListEnd /\ Acceptable(StringAtStart)
             /\ values' = Append(values, StringAtStart)
             /\ start' = start + Len(StringAtStart) + 1 /\ UNCHANGED <<at, decoding>>
    <3>1. WalkInv'
      BY <1>0, <1>1, <2>0, <2>2, WalkGoesOn
    <3> QED
      BY <2>0, <2>2, <3>1 DEF DecodedInv
  <2>3. CASE /\ start < ListEnd /\ ~Acceptable(StringAtStart)
             /\ decoding' = Invalid /\ at' = "build"
    <3>1. ~ListData(raw.units)
      BY <1>1, <2>0, <2>3, RefusedIsNoList
    <3>2. decoding'[1] # "decoded"
      BY <2>3 DEF Invalid
    <3> QED
      BY <1>0, <2>3, <3>1, <3>2 DEF DecodedInv
  <2>4. CASE start >= ListEnd /\ decoding' = Decoded("multi", values) /\ at' = "build"
    <3>1. ListData(raw.units) /\ raw.units = Encoding("multi", values)
      BY <1>1, <2>0, <2>4, WalkedIsList
    <3>2. decoding'[1] = "decoded" /\ decoding'[2][1] = "multi" /\ decoding'[2][2] = values
      BY <2>4 DEF Decoded
    <3> QED
      BY <1>0, <2>1, <2>4, <3>1, <3>2 DEF DecodedInv
  <2> QED
    BY <1>4, <2>2, <2>3, <2>4 DEF TakeString
<1>5. CASE Build
  BY <1>0, <1>5 DEF Build, DecodedInv
<1>6. CASE Validate
  BY <1>0, <1>6 DEF Validate, DecodedInv
<1>7. CASE UNCHANGED vars
  <2>1. WalkInv => WalkInv'
    BY <1>7 DEF vars, WalkInv, ListEnd, Units
  <2> QED
    BY <1>7, <2>1 DEF vars, DecodedInv
<1> QED
  BY <1>2, <1>3, <1>4, <1>5, <1>6, <1>7 DEF Next

\* Decoding loses nothing: what is decoded gives the native data again, and the
\* loop over a list, which looks at it string by string, decodes exactly the data
\* that are a list, for data of any length.
THEOREM DecodingLossless == Spec => []Lossless
<1>1. DecodedInv => Lossless
  BY DEF DecodedInv, Lossless
<1> QED
  BY <1>1, TypedInit, TypedNext, DecodedInit, DecodedNext, PTL DEF Spec
=============================================================================
