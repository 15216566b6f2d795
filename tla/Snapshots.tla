------------------------------ MODULE Snapshots ------------------------------
(***************************************************************************)
(* The Snapshot document (systemdiff-core): collector runs with a status   *)
(* for each scope, and observations that refer to them.  Documents come    *)
(* from the collectors of this process or from a file of another one, so   *)
(* nothing relates their parts until validate has accepted them.           *)
(*                                                                         *)
(* A document is a record of sequences, in which repetition is possible:   *)
(*   enabled      : collector identifiers                                  *)
(*   runs         : [id, version, status, coverage, diagnosed], where      *)
(*                  coverage is a sequence of [scope, status] and          *)
(*                  diagnosed the set of scopes the diagnostics name       *)
(*   observations : [collector, version, scope, name, datum]               *)
(* An artifact is the datum; its key is <<collector, scope, name>>.        *)
(***************************************************************************)
EXTENDS Naturals, Sequences, SequencesExt

Statuses == {"complete", "partial", "permission_denied", "unavailable",
             "unsupported", "failed"}

\* The statuses under which observations may be present at all.
Readable == {"complete", "partial"}

KeyOf(o) == <<o.collector, o.scope, o.name>>

NoRepeats(seq, Of(_)) == IsInjective([k \in DOMAIN seq |-> Of(seq[k])])

-----------------------------------------------------------------------------
(***************************************************************************)
(* Snapshot::validate                                                      *)
(***************************************************************************)

\* The status of a run agrees with the statuses of its scopes.
StatusConsistent(run) ==
    LET done == {k \in DOMAIN run.coverage : run.coverage[k].status = "complete"}
    IN  /\ run.status = "complete" => done = DOMAIN run.coverage
        /\ run.status = "partial" => done # DOMAIN run.coverage
        /\ run.status \notin Readable => done = {}

\* Mutant: a run may cover a scope twice.
MutantScopesRepeat(run) == TRUE

ScopesDistinct(run) == NoRepeats(run.coverage, LAMBDA c : c.scope)

RunValid(doc, run) ==
    /\ run.version # 0
    /\ run.id \in Range(doc.enabled)
    /\ run.coverage # <<>>
    /\ StatusConsistent(run)
    /\ ScopesDistinct(run)
    /\ run.diagnosed \subseteq {c.scope : c \in Range(run.coverage)}

\* The first entry of the run for a scope; 0 if the scope is not covered.
CoverageOf(run, scope) == SelectInSeq(run.coverage, LAMBDA c : c.scope = scope)

ObservationValid(doc, o) ==
    \E run \in Range(doc.runs) :
        /\ run.id = o.collector
        /\ run.version = o.version
        /\ run.status \in Readable
        /\ CoverageOf(run, o.scope) # 0
        /\ run.coverage[CoverageOf(run, o.scope)].status \in Readable

Validates(doc) ==
    /\ NoRepeats(doc.enabled, LAMBDA id : id)
    /\ NoRepeats(doc.runs, LAMBDA run : run.id)
    /\ \A run \in Range(doc.runs) : RunValid(doc, run)
    /\ Range(doc.enabled) \subseteq {run.id : run \in Range(doc.runs)}
    /\ \A o \in Range(doc.observations) : ObservationValid(doc, o)
    /\ NoRepeats(doc.observations, KeyOf)

-----------------------------------------------------------------------------
\* A run that produced nothing usable speaks for all of its scopes.
Effective(run, status) == IF run.status \in Readable THEN status ELSE run.status

\* Snapshot::scope_status: the first run and the first entry that match.
ScopeStatus(doc, key) ==
    LET r == SelectInSeq(doc.runs, LAMBDA run : run.id = key[1])
        c == CoverageOf(doc.runs[r], key[2])
    IN  IF r = 0 \/ c = 0 THEN "none"
        ELSE Effective(doc.runs[r], doc.runs[r].coverage[c].status)
=============================================================================
