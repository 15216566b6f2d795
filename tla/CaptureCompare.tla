--------------------------- MODULE CaptureCompare ---------------------------
(***************************************************************************)
(* What the application is for: two captures of the same keys, the change  *)
(* of interest in between, and the comparison.  Each capture is what       *)
(* ScopeCapture promises, and RegistryScan was shown to keep; the keys     *)
(* change before, between, after and during the captures.                  *)
(***************************************************************************)
EXTENDS ScopeCapture, SnapshotDiff, FiniteSets

Run == INSTANCE RegistryRun

CONSTANT
    MaxChanges    \* bound of the model: writes while one scope is being read

\* Names have an order, and a value is there.
ASSUME CompareAssumption ==
    /\ Scopes \in Nat \ {0}
    /\ Names \subseteq Nat /\ IsFiniteSet(Names)
    /\ Absent \notin Data

VARIABLES
    stage,      \* "before" and "after" while capturing, then "compared"
    past,       \* history: past[c][s], contents of scope s during its read
    baseline,   \* the Snapshot of the first capture
    reported    \* what the comparison reports

compareVars == <<scope, content, seen, result, stage, past, baseline, reported>>

-----------------------------------------------------------------------------
Captures == {"before", "after"}

NoPast == [s \in 1 .. Scopes |-> {}]

\* The records of a scope as the collector hands them on, in identity order.
InOrder(rs) ==
    CHOOSE seq \in [1 .. Cardinality(rs) -> rs] :
        \A i, j \in DOMAIN seq : i < j => seq[i].name < seq[j].name

Snapshot(res) ==
    Run!Document("known", [s \in 1 .. Scopes |->
        [status |-> res[s].status, found |-> InOrder(res[s].found)]])

NoSnapshot == [enabled |-> <<>>, runs |-> <<>>, observations |-> <<>>]

CompareInit ==
    /\ CaptureInit
    /\ stage = "before"
    /\ past = [c \in Captures |-> [NoPast EXCEPT ![1] = IF c = "before" THEN {content} ELSE {}]]
    /\ baseline = NoSnapshot
    /\ reported = {}

Noted(c, s, rs) == past' = [past EXCEPT ![c][s] = @ \union {rs}]

\* Another program writes to the key that is being read.
ChangeKey ==
    /\ stage \in Captures /\ scope <= Scopes
    /\ Cardinality(past[stage][scope]) <= MaxChanges
    /\ Change
    /\ Noted(stage, scope, content')
    /\ UNCHANGED <<stage, baseline, reported>>

\* One scope of the capture ends, and the next one begins if there is one.
CaptureScope ==
    /\ stage \in Captures
    /\ EndScope
    /\ IF scope < Scopes THEN Noted(stage, scope + 1, content') ELSE UNCHANGED past
    /\ UNCHANGED <<stage, baseline, reported>>

\* start_capture has published its Snapshot; at any later time finish_capture
\* takes the second, of keys that may hold anything by then.
BeginSecond ==
    /\ stage = "before" /\ scope > Scopes
    /\ stage' = "after"
    /\ baseline' = Snapshot(result)
    /\ scope' = 1
    /\ content' \in Contents
    /\ seen' = content'
    /\ result' = [s \in 1 .. Scopes |-> Outcome("pending", {})]
    /\ Noted("after", 1, content')
    /\ UNCHANGED reported

\* The second capture is complete, and both Snapshots are compared.
CompareCaptures ==
    /\ stage = "after" /\ scope > Scopes
    /\ Validates(baseline) /\ Validates(Snapshot(result))
    /\ Compatible(baseline, Snapshot(result))
    /\ reported' = Changes(baseline, Snapshot(result))
    /\ stage' = "compared"
    /\ UNCHANGED <<captureVars, past, baseline>>

\* The result stays; any other state without a successor is a comparison that
\* was refused, and TLC reports it as a deadlock.
ShowResult == stage = "compared" /\ UNCHANGED compareVars

CompareNext == ChangeKey \/ CaptureScope \/ BeginSecond \/ CompareCaptures \/ ShowResult

CompareSpec == CompareInit /\ [][CompareNext]_compareVars

-----------------------------------------------------------------------------
(***************************************************************************)
(* Properties                                                              *)
(***************************************************************************)
ChangeScope(c) == c.key[2]
ChangeName(c) == c.key[3]

\* During capture k the name of the change had this datum, or did not exist.
Held(k, c, d) ==
    \E rs \in past[k][ChangeScope(c)] : [name |-> ChangeName(c), datum |-> d] \in rs

Missing(k, c) ==
    \E rs \in past[k][ChangeScope(c)] : \A r \in rs : r.name # ChangeName(c)

\* No invented change.  What is reported as added was missing at a moment of
\* the first capture and there at one of the second, the reverse for removed,
\* and modified values were both there: lost evidence is never an absence.
ChangesReal ==
    \A c \in reported :
        /\ c.change = "added" => Missing("before", c) /\ Held("after", c, c.after)
        /\ c.change = "removed" => Held("before", c, c.before) /\ Missing("after", c)
        /\ c.change = "modified" => Held("before", c, c.before) /\ Held("after", c, c.after)

\* Nothing missed and nothing in doubt: where both captures read a scope
\* completely and undisturbed, the reported changes are the difference.
CompleteOf(doc, s) == ScopeStatus(doc, <<"registry", s>>) = "complete"

QuietScopesExact ==
    stage = "compared" =>
        \A s \in 1 .. Scopes, old, new \in Contents :
            /\ CompleteOf(baseline, s) /\ CompleteOf(Snapshot(result), s)
            /\ past["before"][s] = {old} /\ past["after"][s] = {new}
            => /\ \A c \in reported : ChangeScope(c) = s => c.change # "inconclusive"
               /\ {ChangeName(c) : c \in {x \in reported : ChangeScope(x) = s}} =
                    {r.name : r \in (old \ new) \union (new \ old)}
=============================================================================
