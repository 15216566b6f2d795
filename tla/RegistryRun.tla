---------------------------- MODULE RegistryRun -----------------------------
(***************************************************************************)
(* The run that the registry collector hands to the Snapshot, from the     *)
(* outcomes of its scopes: result[s] has the status of scope s and the     *)
(* records found in it, in the order of their identities.                  *)
(***************************************************************************)
EXTENDS Snapshots

Outcome(status, found) == [status |-> status, found |-> found]
Pending == Outcome("pending", <<>>)

\* aggregate_status
Aggregate(statuses) ==
    CASE statuses \subseteq {"complete"} -> "complete"
      [] \E st \in Statuses \ Readable : statuses = {st} -> CHOOSE st \in statuses : TRUE
      [] OTHER -> "partial"

\* The scopes that detect_layout settles without reading them.
Precomputed(layout) ==
    IF layout = "known" THEN <<>> ELSE <<[scope |-> 0, status |-> layout]>>

Coverage(layout, result) ==
    Precomputed(layout)
        \o [s \in DOMAIN result |-> [scope |-> s, status |-> result[s].status]]

Observed(s, r) ==
    [collector |-> "registry", version |-> 1, scope |-> s, name |-> r.name,
     datum |-> r.datum]

\* A scope that is not complete has a diagnostic.
Document(layout, result) ==
    LET coverage == Coverage(layout, result)
    IN  [enabled |-> <<"registry">>,
         runs |->
            <<[id |-> "registry", version |-> 1, coverage |-> coverage,
               status |-> Aggregate({c.status : c \in Range(coverage)}),
               diagnosed |-> {c.scope : c \in {x \in Range(coverage) : x.status # "complete"}}]>>,
         observations |->
            FlattenSeq([s \in DOMAIN result |->
                [k \in DOMAIN result[s].found |-> Observed(s, result[s].found[k])]])]
=============================================================================
