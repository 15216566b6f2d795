---------------------------- MODULE SnapshotDiff ----------------------------
(***************************************************************************)
(* The comparison of two Snapshots (systemdiff-diff), key by key: the      *)
(* operators that diff_snapshots is made of.                               *)
(***************************************************************************)
EXTENDS Snapshots

\* An absent artifact, and the change that is left out of the document.
Absent == "absent"

LastWith(seq, Test(_)) == SelectLastInSeq(seq, Test)

Versions(doc) ==
    [id \in {run.id : run \in Range(doc.runs)} |->
        doc.runs[LastWith(doc.runs, LAMBDA run : run.id = id)].version]

\* ensure_collector_versions_are_compatible
Compatible(old, new) ==
    \A run \in Range(new.runs) :
        run.id \in DOMAIN Versions(old) => Versions(old)[run.id] = run.version

\* observation_index: of several observations with one key, the last.
Index(doc) ==
    [key \in {KeyOf(o) : o \in Range(doc.observations)} |->
        doc.observations[LastWith(doc.observations, LAMBDA o : KeyOf(o) = key)].datum]

Lookup(doc, key) == IF key \in DOMAIN Index(doc) THEN Index(doc)[key] ELSE Absent

\* Mutant: the keys of the first document only.
MutantKeysOfBefore(old, new) == DOMAIN Index(old)

Keys(old, new) == DOMAIN Index(old) \union DOMAIN Index(new)

\* Mutant: the coverage of the second document is not consulted.
MutantCoverageOfBefore(old, new, key) == ScopeStatus(old, key) = "complete"

CoverageComplete(old, new, key) ==
    ScopeStatus(old, key) = "complete" /\ ScopeStatus(new, key) = "complete"

\* Mutant: coverage is not asked for.
MutantIgnoreCoverage(b, a, complete) ==
    CASE b # Absent /\ a # Absent -> "modified"
      [] b = Absent -> "added"
      [] OTHER -> "removed"

\* classify_change for two artifacts that are not equal.
Classify(b, a, complete) ==
    CASE b # Absent /\ a # Absent -> "modified"
      [] b = Absent /\ complete -> "added"
      [] a = Absent /\ complete -> "removed"
      [] OTHER -> "inconclusive"

\* The changes without the unchanged artifacts, as the presentation asks.
Changes(old, new) ==
    {[key |-> key, before |-> Lookup(old, key), after |-> Lookup(new, key),
      change |-> Classify(Lookup(old, key), Lookup(new, key),
                          CoverageComplete(old, new, key))] :
        key \in {k \in Keys(old, new) : Lookup(old, k) # Lookup(new, k)}}

\* coverage_index: a map filled entry by entry, so that the last one stays.
CoverageIndex(doc) ==
    [at \in UNION {{<<run.id, c.scope>> : c \in Range(run.coverage)} : run \in Range(doc.runs)} |->
        LET run == doc.runs[LastWith(doc.runs,
                     LAMBDA r : r.id = at[1] /\ \E c \in Range(r.coverage) : c.scope = at[2])]
        IN  Effective(run,
              run.coverage[LastWith(run.coverage, LAMBDA c : c.scope = at[2])].status)]

\* coverage_warnings: every scope of either document not complete in both.
Warnings(old, new) ==
    LET complete(doc) == {at \in DOMAIN CoverageIndex(doc) :
                            CoverageIndex(doc)[at] = "complete"}
    IN  (DOMAIN CoverageIndex(old) \union DOMAIN CoverageIndex(new))
            \ (complete(old) \intersect complete(new))
=============================================================================
