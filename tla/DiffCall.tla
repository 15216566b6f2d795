------------------------------ MODULE DiffCall ------------------------------
(***************************************************************************)
(* A call of diff_snapshots (systemdiff-diff): two Snapshots are           *)
(* validated, checked for compatible collectors and compared.  A state is  *)
(* the call between two of its early returns; the documents are any that   *)
(* Documents holds, also the ones that validate must refuse.               *)
(***************************************************************************)
EXTENDS SnapshotDiff

CONSTANT Documents    \* what decode_snapshot_document may hand to the diff

\* Lists are lists, and an artifact is there.
ASSUME DocumentsAssumption ==
    \A doc \in Documents :
        /\ doc.runs \in Seq(Range(doc.runs))
        /\ \A run \in Range(doc.runs) : run.coverage \in Seq(Range(run.coverage))
        /\ doc.observations \in Seq(Range(doc.observations))
        /\ \A o \in Range(doc.observations) : o.datum # Absent

VARIABLES
    pc,          \* the next check of the call, or how it returned
    before,      \* the documents being compared
    after,
    changes,     \* the changes of the Diff document, a set
    warnings     \* its coverage warnings, a set

vars == <<pc, before, after, changes, warnings>>

-----------------------------------------------------------------------------
NoDocument == [enabled |-> <<>>, runs |-> <<>>, observations |-> <<>>]

TypeOK ==
    /\ pc \in {"before", "after", "versions", "invalid_before", "invalid_after",
               "incompatible", "compared"}
    /\ {before, after} \subseteq Documents \union {NoDocument}
    /\ \A c \in changes : c.change \in {"added", "removed", "modified", "inconclusive"}

Init ==
    /\ pc = "before"
    /\ before \in Documents
    /\ after = NoDocument
    /\ changes = {}
    /\ warnings = {}

ValidateBefore ==
    /\ pc = "before"
    /\ \/ /\ Validates(before)
          /\ after' \in Documents
          /\ pc' = "after"
       \/ /\ ~Validates(before)
          /\ pc' = "invalid_before"
          /\ UNCHANGED after
    /\ UNCHANGED <<before, changes, warnings>>

ValidateAfter ==
    /\ pc = "after"
    /\ pc' = IF Validates(after) THEN "versions" ELSE "invalid_after"
    /\ UNCHANGED <<before, after, changes, warnings>>

Compare ==
    /\ pc = "versions"
    /\ \/ /\ Compatible(before, after)
          /\ changes' = Changes(before, after)
          /\ warnings' = Warnings(before, after)
          /\ pc' = "compared"
       \/ /\ ~Compatible(before, after)
          /\ pc' = "incompatible"
          /\ UNCHANGED <<changes, warnings>>
    /\ UNCHANGED <<before, after>>

Next == ValidateBefore \/ ValidateAfter \/ Compare

Spec == Init /\ [][Next]_vars

-----------------------------------------------------------------------------
(***************************************************************************)
(* Properties                                                              *)
(***************************************************************************)
Compared == pc = "compared"

ScopeOf(change) == <<change.key[1], change.key[2]>>

\* A reader of the result is told why a change is inconclusive: its scope has a
\* warning, and a scope behind a decided addition or removal has none.  The two
\* sides come from separate lookups, scope_status and coverage_index, which
\* agree only because validate refuses repeated runs and scopes.
WarningsExplainInconclusive ==
    Compared =>
        \A c \in changes :
            /\ c.change = "inconclusive" => ScopeOf(c) \in warnings
            /\ c.change \in {"added", "removed"} => ScopeOf(c) \notin warnings

\* No evidence of an accepted document is lost on the way: each observation
\* is in exactly one change with its own datum, or is in both documents alike.
EvidenceAccounted ==
    Compared =>
        \A doc \in {before, after} : \A o \in Range(doc.observations) :
            LET named == {c \in changes : c.key = KeyOf(o)}
            IN  IF Lookup(before, KeyOf(o)) = Lookup(after, KeyOf(o))
                THEN named = {} /\ o.datum = Lookup(before, KeyOf(o))
                ELSE \E c \in named :
                        /\ named = {c}
                        /\ o.datum = IF doc = before THEN c.before ELSE c.after

\* Comparing in the other direction tells the same story backwards: additions
\* and removals trade places, all else keeps its kind, the warnings stay.
Reversed(c) ==
    [key |-> c.key, before |-> c.after, after |-> c.before,
     change |-> CASE c.change = "added" -> "removed"
                  [] c.change = "removed" -> "added"
                  [] OTHER -> c.change]

DirectionIndependent ==
    Compared =>
        /\ Compatible(after, before)
        /\ Changes(after, before) = {Reversed(c) : c \in changes}
        /\ Warnings(after, before) = warnings
=============================================================================
