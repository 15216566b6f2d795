----------------------------- MODULE MCDiffCall -----------------------------
(***************************************************************************)
(* Small documents for DiffCall: one or two runs, up to two coverage   *)
(* entries and two observations, repetitions and contradictions included.  *)
(***************************************************************************)
EXTENDS DiffCall

SomeStatuses == {"complete", "partial", "failed"}

CoverageOn(scope) == {[scope |-> scope, status |-> st] : st \in SomeStatuses}

\* Scope a alone, a and b, or a twice.
MCCoverages ==
    {<<x>> : x \in CoverageOn("a")}
        \union {<<x, y>> : x \in CoverageOn("a"), y \in CoverageOn("a") \union CoverageOn("b")}

Run(id, version, status, coverage, diagnosed) ==
    [id |-> id, version |-> version, status |-> status, coverage |-> coverage,
     diagnosed |-> diagnosed]

Seen(scope, datum) ==
    [collector |-> "c", version |-> 1, scope |-> scope, name |-> "n", datum |-> datum]

MCObservations ==
    {<<>>, <<Seen("a", "d1")>>, <<Seen("a", "d2")>>, <<Seen("b", "d1")>>,
     <<Seen("a", "d1"), Seen("b", "d2")>>, <<Seen("a", "d1"), Seen("a", "d2")>>}

Document(enabled, runs, observations) ==
    [enabled |-> enabled, runs |-> runs, observations |-> observations]

OneRun ==
    {Document(<<"c">>, <<Run("c", 1, status, coverage, {})>>, observations) :
        status \in SomeStatuses, coverage \in MCCoverages,
        observations \in MCObservations}

\* What validate refuses or tells apart besides statuses and scopes: versions,
\* enabled collectors, a second collector, a repeated run, a stray diagnostic.
Whole == <<[scope |-> "a", status |-> "complete"]>>

Others ==
    {Document(enabled, <<Run("c", v, "complete", Whole, diagnosed)>> \o more, observations) :
        enabled \in {<<"c">>, <<"c", "e">>, <<"c", "c">>},
        v \in 0 .. 2,
        diagnosed \in {{}, {"a"}, {"b"}},
        more \in {<<>>, <<Run("c", 1, "partial", <<[scope |-> "a", status |-> "partial"]>>, {})>>,
                  <<Run("e", 1, "complete", Whole, {})>>},
        observations \in {<<>>, <<Seen("a", "d1")>>}}

SmallDocuments == OneRun \union Others
=============================================================================
