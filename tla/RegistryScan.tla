---------------------------- MODULE RegistryScan ----------------------------
(***************************************************************************)
(* The registry startup collector (registry.rs, win32.rs): it reads a few  *)
(* keys one after the other, each value by its index and in up to two      *)
(* native calls, while other programs keep changing the key.  One native   *)
(* call is one step, and so is one change by the environment.  Only the    *)
(* key of the scope being read is in the state; those of later scopes may  *)
(* hold anything when their turn comes.                                    *)
(*                                                                         *)
(* A name stands for its identity hash, so the order of the names is the   *)
(* order of the identities; a datum stands for a type and data bytes.      *)
(***************************************************************************)
EXTENDS RegistryRun, Sums, FiniteSetsExt

CONSTANTS
    Scopes,         \* number of registry targets, read in this order
    Names,          \* value names, natural numbers
    NameUnits,      \* NameUnits[n]: UTF-16 units of the name
    Data,           \* values a name can have
    DataBytes,      \* DataBytes[d]: bytes of the value
    TypeOf,         \* TypeOf[d]: registry type of the value
    Budget,         \* MAX_REGISTRY_COLLECTOR_EVIDENCE_BYTES
    MaxValueBytes,  \* MAX_REGISTRY_VALUE_DATA_BYTES
    MaxNameUnits,   \* REGISTRY_VALUE_NAME_MAX_UTF16_UNITS
    MaxValues,      \* MAX_REGISTRY_VALUES_PER_SCOPE
    MaxAttempts,    \* MAX_SCOPE_ATTEMPTS
    MaxGrowth,      \* MAX_BUFFER_GROWTH_ATTEMPTS
    MaxKeyValues,   \* bound of the model: values a key holds at once
    Layouts,        \* outcomes of detect_layout to consider
    None            \* no attempt, no name

ASSUME ScanAssumption ==
    /\ Scopes \in Nat \ {0} /\ MaxAttempts \in Nat \ {0} /\ MaxGrowth \in Nat \ {0}
    /\ MaxValues \in Nat \ {0} /\ MaxKeyValues \in Nat
    /\ Budget \in Nat /\ MaxValueBytes \in Nat /\ MaxNameUnits \in Nat
    /\ Names \subseteq Nat /\ NameUnits \in [Names -> Nat]
    /\ DataBytes \in [Data -> Nat]
    /\ Layouts \subseteq {"known", "unsupported", "failed"}
    /\ None \notin Names

VARIABLES
    exists,     \* the environment: the key of the current scope exists
    values,     \* its values, in the order the registry enumerates them
    layout,     \* outcome of detect_layout for the scopes not collected
    scope,      \* the target being read, Scopes + 1 after the last one
    attempt,    \* read_key_once is called for the attempt-th time
    pc,         \* the native call that comes next
    live,       \* the open handle refers to the existing key
    scan,       \* what this attempt has gathered
    call,       \* the buffers and expectations for the value at the index
    last,       \* records of the latest unstable attempt, or None
    remaining,  \* evidence budget that earlier scopes have left
    result,     \* result[s]: status and observations of scope s
    seen        \* history: records the key held since its scope began

keyVars == <<exists, values, seen>>
scopeVars == <<layout, scope, attempt, live, last, remaining, result>>
vars == <<exists, values, layout, scope, attempt, pc, live, scan, call, last,
          remaining, result, seen>>

-----------------------------------------------------------------------------
Records == [name : Names, datum : Data]

\* native_evidence_bytes: two bytes for each unit of the name, and the data.
Bytes(r) == 2 * NameUnits[r.name] + DataBytes[r.datum]
Total(rs) == SumOf([k \in DOMAIN rs |-> Bytes(rs[k])])

Contents == {rs \in BoundedSeq(Records, MaxKeyValues) : NoRepeats(rs, LAMBDA r : r.name)}

Named(rs, n) == {k \in DOMAIN rs : rs[k].name = n}

Larger(m, n) == IF m > n THEN m ELSE n
Smaller(m, n) == IF m < n THEN m ELSE n

\* BoundedRecords::insert.  The records stay in identity order, later ones of
\* an identity behind the earlier; the last are dropped until the budget holds.
Placed(rs, r) == InsertAt(rs, Cardinality({k \in DOMAIN rs : rs[k].name <= r.name}) + 1, r)

Trimmed(rs, budget) ==
    SubSeq(rs, 1, Max({n \in 0 .. Len(rs) : Total(SubSeq(rs, 1, n)) <= budget}))

\* Mutant: records that share an identity are all kept.
MutantKeepCollisions(rs, k) == TRUE

Sole(rs, k) == Named(rs, rs[k].name) = {k}

\* build_target_collection: an identity with several records yields none, and
\* an observation that would exceed the budget is left out.
Affordable(rs, budget) ==
    LET kept[k \in 0 .. Len(rs)] ==
            IF k = 0 THEN <<>>
            ELSE IF Sole(rs, k) /\ Total(kept[k - 1]) + Bytes(rs[k]) <= budget
                 THEN Append(kept[k - 1], rs[k])
                 ELSE kept[k - 1]
    IN  kept[Len(rs)]

\* Mutant: only what is dropped here makes a scope partial, not what the
\* enumeration skipped.
MutantForgetIssues(rs, flawed, budget) ==
    LET found == Affordable(rs, budget)
    IN  Outcome(IF found # rs THEN "partial" ELSE "complete", found)

Collection(rs, flawed, budget) ==
    LET found == Affordable(rs, budget)
    IN  Outcome(IF flawed \/ found # rs THEN "partial" ELSE "complete", found)

-----------------------------------------------------------------------------
NoScan == [count |-> 0, units |-> 0, changed |-> FALSE, index |-> 0, records |-> <<>>,
           repeated |-> FALSE, flawed |-> FALSE]
NoCall == [tries |-> 0, units |-> 0, bytes |-> 0, name |-> None, type |-> None]

TypeOK ==
    /\ exists \in BOOLEAN
    /\ values \in Contents
    /\ ~exists => values = <<>>
    /\ layout \in Layouts
    /\ scope \in 1 .. Scopes + 1
    /\ attempt \in 1 .. MaxAttempts
    /\ pc \in {"open", "query", "probe", "read", "requery", "done"}
    /\ live \in BOOLEAN
    /\ live => exists
    /\ scan.index \in 0 .. MaxValues
    /\ Range(scan.records) \subseteq Records
    /\ call.tries \in 0 .. MaxGrowth - 1
    /\ call.units \in 0 .. MaxNameUnits + 1
    /\ call.bytes \in 0 .. MaxValueBytes
    /\ call.name \in Names \union {None}
    /\ last = None \/ Range(last) \subseteq Records
    /\ remaining \in 0 .. Budget
    /\ \A s \in 1 .. Scopes :
        /\ result[s].status \in Statuses \union {"pending"}
        /\ Range(result[s].found) \subseteq Records
    /\ seen \subseteq Records

Init ==
    /\ exists \in BOOLEAN
    /\ values \in IF exists THEN Contents ELSE {<<>>}
    /\ layout \in Layouts
    /\ scope = 1
    /\ attempt = 1
    /\ pc = "open"
    /\ live = FALSE
    /\ scan = NoScan
    /\ call = NoCall
    /\ last = None
    /\ remaining = Budget
    /\ result = [s \in 1 .. Scopes |-> Pending]
    /\ seen = Range(values)

-----------------------------------------------------------------------------
(***************************************************************************)
(* The environment.  A write gives the key a new last-write time.          *)
(***************************************************************************)
Write(rs) ==
    /\ pc # "done"
    /\ values' = rs
    /\ seen' = seen \union Range(rs)
    /\ scan' = IF pc \in {"probe", "read", "requery"} THEN [scan EXCEPT !.changed = TRUE]
               ELSE scan
    /\ UNCHANGED <<pc, call, scopeVars>>

\* A new value takes any place in the enumeration.
SetValue ==
    /\ exists
    /\ \E r \in Records :
        \/ \E k \in Named(values, r.name) : Write(ReplaceAt(values, k, r))
        \/ /\ Named(values, r.name) = {} /\ Len(values) < MaxKeyValues
           /\ \E k \in 1 .. Len(values) + 1 : Write(InsertAt(values, k, r))
    /\ UNCHANGED exists

DeleteValue ==
    /\ \E k \in DOMAIN values : Write(RemoveAt(values, k))
    /\ UNCHANGED exists

\* The key goes, and with it what an open handle refers to.
DeleteKey ==
    /\ pc # "done" /\ exists
    /\ exists' = FALSE /\ values' = <<>> /\ live' = FALSE
    /\ UNCHANGED <<seen, layout, scope, attempt, pc, scan, call, last, remaining, result>>

CreateKey ==
    /\ pc # "done" /\ ~exists
    /\ exists' = TRUE
    /\ UNCHANGED <<values, seen, pc, scan, call, scopeVars>>

Environment == SetValue \/ DeleteValue \/ DeleteKey \/ CreateKey

-----------------------------------------------------------------------------
(***************************************************************************)
(* The collector.  The end of a scope, and of an attempt.                  *)
(***************************************************************************)
\* Mutant: every scope may use the whole budget.
MutantBudgetPerScope(outcome) == remaining

Left(outcome) == remaining - Total(outcome.found)

EndScope(outcome) ==
    /\ result' = [result EXCEPT ![scope] = outcome]
    /\ remaining' = Left(outcome)
    /\ scope' = scope + 1
    /\ \/ /\ scope < Scopes
          /\ pc' = "open"
          /\ exists' \in BOOLEAN
          /\ values' \in IF exists' THEN Contents ELSE {<<>>}
       \/ /\ scope = Scopes
          /\ pc' = "done"
          /\ exists' = FALSE /\ values' = <<>>
    /\ seen' = Range(values')
    /\ attempt' = 1 /\ live' = FALSE /\ scan' = NoScan /\ call' = NoCall /\ last' = None
    /\ UNCHANGED layout

\* Mutant: one attempt too many.
MutantExtraAttempt(latest) ==
    \/ /\ attempt <= MaxAttempts
       /\ attempt' = attempt + 1
       /\ pc' = "open" /\ live' = FALSE /\ scan' = NoScan /\ call' = NoCall
       /\ last' = latest
       /\ UNCHANGED <<keyVars, layout, scope, remaining, result>>
    \/ /\ attempt > MaxAttempts
       /\ EndScope(Outcome("partial", <<>>))

\* Mutant: the attempts are not counted.
MutantRetryForEver(latest) ==
    /\ pc' = "open" /\ live' = FALSE /\ scan' = NoScan /\ call' = NoCall
    /\ last' = latest
    /\ UNCHANGED <<keyVars, layout, scope, attempt, remaining, result>>

\* The attempt did not see a stable key; latest is the one whose records count.
EndAttempt(latest) ==
    \/ /\ attempt < MaxAttempts
       /\ attempt' = attempt + 1
       /\ pc' = "open" /\ live' = FALSE /\ scan' = NoScan /\ call' = NoCall
       /\ last' = latest
       /\ UNCHANGED <<keyVars, layout, scope, remaining, result>>
    \/ /\ attempt = MaxAttempts
       /\ EndScope(IF latest = None THEN Outcome("partial", <<>>)
                   ELSE Collection(latest, TRUE, remaining))

Unstable == EndAttempt(scan.records)
KeyDeleted == EndAttempt(last)
Refused == \E st \in {"permission_denied", "failed"} : EndScope(Outcome(st, <<>>))

\* RegOpenKeyExW.  A key that is missing is an empty scope, not an error.
Open ==
    /\ pc = "open"
    /\ \/ /\ exists
          /\ pc' = "query" /\ live' = TRUE
          /\ UNCHANGED <<keyVars, layout, scope, attempt, scan, call, last, remaining, result>>
       \/ /\ ~exists
          /\ \/ EndScope(Outcome("complete", <<>>))
             \/ KeyDeleted    \* while it was being opened
       \/ Refused

\* The name buffer for the longest name, within the platform's limit.
NameCapacity(rs) ==
    Max({0} \union {Smaller(NameUnits[r.name], MaxNameUnits) : r \in Range(rs)}) + 1

\* RegQueryInfoKeyW before the values are read.
QueryBefore ==
    /\ pc = "query"
    /\ \/ /\ live
          /\ scan' = [NoScan EXCEPT !.count = Len(values), !.units = NameCapacity(values)]
          /\ call' = [NoCall EXCEPT !.units = NameCapacity(values)]
          /\ pc' = "probe"
          /\ UNCHANGED <<keyVars, scopeVars>>
       \/ ~live /\ KeyDeleted
       \/ Refused

\* On to the next index, unless the limit for a scope is reached.
Advance(records, repeated, flawed) ==
    /\ scan' = [scan EXCEPT !.index = @ + 1, !.records = records,
                            !.repeated = repeated, !.flawed = flawed]
    /\ call' = [NoCall EXCEPT !.units = scan.units]
    /\ pc' = IF scan.index + 1 < MaxValues THEN "probe" ELSE "requery"
    /\ UNCHANGED <<keyVars, scopeVars>>

Skip == Advance(scan.records, scan.repeated, TRUE)

Keep(r) ==
    LET placed == Placed(scan.records, r)
        records == Trimmed(placed, remaining)
    IN  Advance(records, scan.repeated \/ Named(scan.records, r.name) # {},
                scan.flawed \/ records # placed)

\* A longer buffer and another call, or the value is given up.
GrowName(units) == Smaller(2 * units, MaxNameUnits + 1)

Retry(units, bytes) ==
    \/ /\ call.tries + 1 < MaxGrowth
       /\ call' = [call EXCEPT !.tries = @ + 1, !.units = units, !.bytes = bytes]
       /\ UNCHANGED <<pc, scan, keyVars, scopeVars>>
    \/ /\ call.tries + 1 = MaxGrowth
       /\ Skip

Current == values[scan.index + 1]
InRange == scan.index < Len(values)
NameFits == NameUnits[Current.name] < call.units

\* probe_value: RegEnumValueW without a data buffer.
Probe ==
    /\ pc = "probe"
    /\ \/ /\ live /\ InRange /\ NameFits
          /\ \/ /\ DataBytes[Current.datum] > MaxValueBytes \/ Bytes(Current) > remaining
                /\ Skip
             \/ /\ DataBytes[Current.datum] = 0 /\ Bytes(Current) <= remaining
                /\ Keep(Current)
             \/ /\ DataBytes[Current.datum] \in 1 .. MaxValueBytes
                /\ Bytes(Current) <= remaining
                /\ pc' = "read"
                /\ call' = [tries |-> 0, units |-> call.units,
                            bytes |-> DataBytes[Current.datum],
                            name |-> Current.name, type |-> TypeOf[Current.datum]]
                /\ UNCHANGED <<scan, keyVars, scopeVars>>
       \/ /\ live /\ InRange /\ ~NameFits
          /\ \/ call.units > MaxNameUnits /\ Skip
             \/ call.units <= MaxNameUnits /\ Retry(GrowName(call.units), 0)
       \/ /\ live /\ ~InRange
          /\ pc' = "requery" /\ call' = NoCall
          /\ UNCHANGED <<scan, keyVars, scopeVars>>
       \/ Unstable    \* the key was deleted, or the call failed

\* The second call returns the value that the first one announced.
Expected == Current.name = call.name /\ TypeOf[Current.datum] = call.type

\* read_value: RegEnumValueW for the same index, with the data buffer.
Read ==
    /\ pc = "read"
    /\ \/ /\ live /\ InRange /\ NameFits /\ DataBytes[Current.datum] <= call.bytes
          /\ \/ Expected /\ Keep([name |-> call.name, datum |-> Current.datum])
             \/ ~Expected /\ Unstable
       \/ /\ live /\ InRange /\ ~(NameFits /\ DataBytes[Current.datum] <= call.bytes)
          /\ LET required == DataBytes[Current.datum]
                 grown == Larger(Larger(required, 2 * call.bytes), 1)
                 fits == /\ required <= MaxValueBytes /\ grown <= MaxValueBytes
                         /\ 2 * NameUnits[call.name] + grown <= remaining
             IN  \/ ~fits /\ Skip
                 \/ fits /\ Retry(GrowName(call.units), grown)
       \/ Unstable    \* no such index, the key was deleted, or the call failed

Exhausted == scan.index = MaxValues /\ Len(values) > MaxValues

\* No write between the two queries, and every value enumerated once.
Stable ==
    /\ ~scan.changed /\ scan.count = Len(values)
    /\ scan.index = Len(values) \/ Exhausted
    /\ ~scan.repeated

\* Mutant: values beyond the limit for a scope are forgotten.
MutantIgnoreLimit == scan.flawed

Incomplete == scan.flawed \/ Exhausted

\* RegQueryInfoKeyW after the last value: was that one stable content?
QueryAfter ==
    /\ pc = "requery"
    /\ \/ /\ live
          /\ \/ Stable /\ EndScope(Collection(scan.records, Incomplete, remaining))
             \/ ~Stable /\ Unstable
       \/ Unstable    \* the key was deleted, or the call failed

Collector == Open \/ QueryBefore \/ Probe \/ Read \/ QueryAfter

Next == Environment \/ Collector

Spec == Init /\ [][Next]_vars

FairSpec == Spec /\ WF_vars(Collector)

-----------------------------------------------------------------------------
(***************************************************************************)
(* Properties                                                              *)
(***************************************************************************)

\* The run that the collector reports always fits into a valid Snapshot, whatever
\* happened to the keys: a capture is never thrown away because of what it raced
\* with.  What is checked of each single entry is RegistryValue.
DocumentValid == pc = "done" => Validates(Document(layout, result))

\* The evidence of all scopes together stays within the collector's budget.
BudgetRespected ==
    SumOf([s \in 1 .. Scopes |-> Total(result[s].found)]) <= Budget

\* A scope that is reported complete is a snapshot: at the call that ended it,
\* the key held exactly the reported values, none torn, missed or repeated.
CompleteIsSnapshot ==
    [][\A s \in 1 .. Scopes :
        result[s].status = "pending" /\ result'[s].status = "complete" =>
            /\ ToSet(result'[s].found) = ToSet(values)
            /\ Len(result'[s].found) = Len(values)]_vars

\* Retries are bounded: the collector finishes under any stream of changes.
Finishes == <>(pc = "done")
=============================================================================
