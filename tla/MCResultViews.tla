---------------------------- MODULE MCResultViews ----------------------------
(***************************************************************************)
(* Documents for ResultViews: those of MCDiffCall, one service in every    *)
(* variant that the views tell apart or mix up, registry entries of every  *)
(* decoding, both together, and the tasks of a foreign document.           *)
(***************************************************************************)
EXTENDS ResultViews, MCDiffCall

\* Services: a plain one, and what each variant has instead.
Plain ==
    [kind |-> "service", name |-> <<"s">>, display |-> <<>>, type |-> 16, start |-> 3,
     delayed |-> FALSE, error |-> 1, path |-> <<"p">>, account |-> <<>>,
     dependencies |-> <<>>, group |-> <<>>, tag |-> <<>>, description |-> <<>>]

Services ==
    [plain |-> Plain,
     manual_delayed |-> [Plain EXCEPT !.delayed = TRUE],
     automatic |-> [Plain EXCEPT !.start = 2],
     automatic_delayed |-> [Plain EXCEPT !.start = 2, !.delayed = TRUE],
     start_7 |-> [Plain EXCEPT !.start = 7],
     start_8 |-> [Plain EXCEPT !.start = 8],
     error_8 |-> [Plain EXCEPT !.error = 8],
     path_escaped |-> [Plain EXCEPT !.path = <<Backslash, "n">>],
     path_line |-> [Plain EXCEPT !.path = <<LineFeed>>],
     account_none |-> [Plain EXCEPT !.account = <<<<"none">>>>],
     account_not_set |-> [Plain EXCEPT !.account = <<NotSet>>],
     two_dependencies |-> [Plain EXCEPT !.dependencies = <<<<"a">>, <<"b">>>>],
     one_dependency |-> [Plain EXCEPT !.dependencies = <<<<"a", ", ", "b">>>>],
     described |-> [Plain EXCEPT !.description = <<<<"none">>>>],
     named |-> [Plain EXCEPT !.display = <<<<"d">>>>, !.group = <<<<"g">>>>,
                             !.tag = <<1>>, !.type = 32]]

Entry(decoded, name, value, content) ==
    [kind |-> "registry", decoded |-> decoded, name |-> name, location |-> <<"run">>,
     value |-> value, content |-> content]

\* Entries of value n, the unnamed value and one with an undecodable name; the
\* last two have names that look alike, and the key of n in a foreign file.
Entries ==
    [string_a |-> Entry(TRUE, <<"n">>, <<"string", <<"a">>>>, 1),
     expand_a |-> Entry(TRUE, <<"n">>, <<"expand", <<"a">>>>, 2),
     string_b |-> Entry(TRUE, <<"n">>, <<"string", <<"b">>>>, 3),
     multi |-> Entry(TRUE, <<"n">>, <<"multi", <<<<"a">>, <<"b">>>>>>, 4),
     multi_empty |-> Entry(TRUE, <<"n">>, <<"multi", <<>>>>, 5),
     invalid_1 |-> Entry(TRUE, <<"n">>, <<"invalid">>, 6),
     invalid_2 |-> Entry(TRUE, <<"n">>, <<"invalid">>, 7),
     dword |-> Entry(TRUE, <<"n">>, <<"dword", 1>>, 8),
     qword |-> Entry(TRUE, <<"n">>, <<"qword", 1>>, 9),
     unnamed |-> Entry(TRUE, <<>>, <<"string", <<"a">>>>, 1),
     undecodable |-> Entry(FALSE, <<"00d8">>, <<"unsupported">>, 10),
     line |-> Entry(TRUE, <<LineFeed>>, <<"string", <<"a">>>>, 1),
     escaped |-> Entry(TRUE, <<Backslash, "n">>, <<"string", <<"a">>>>, 1)]

Task(action) ==
    [kind |-> "task", path |-> <<"t">>, enabled |-> TRUE, hidden |-> FALSE,
     actions |-> <<action>>]

Tasks ==
    [task_a |-> Task("a"), task_b |-> Task("b"), d1 |-> Task("c"), d2 |-> Task("d")]

MCArtifactOf ==
    [d \in DOMAIN Services \union DOMAIN Entries \union DOMAIN Tasks |->
        CASE d \in DOMAIN Services -> Services[d]
          [] d \in DOMAIN Entries -> Entries[d]
          [] OTHER -> Tasks[d]]

-----------------------------------------------------------------------------
RunScope == "current_user.shared.run"

Covered(id, scope, status) ==
    Run(id, 1, status, <<[scope |-> scope, status |-> status]>>, {})

SeenBy(id, scope, datum) ==
    [collector |-> id, version |-> 1, scope |-> scope,
     name |-> IF datum \in {"unnamed", "undecodable"} THEN datum ELSE "n",
     datum |-> datum]

Of(runs, observations) ==
    Document([k \in DOMAIN runs |-> runs[k].id], runs, observations)

ServiceRun(status) == Covered(ServicesId, "current_token.win32", status)
SeenServices(data) ==
    [k \in DOMAIN data |-> SeenBy(ServicesId, "current_token.win32", data[k])]
StartupRun(status) == Covered(StartupId, RunScope, status)
SeenEntries(data) == [k \in DOMAIN data |-> SeenBy(StartupId, RunScope, data[k])]

OneOf(data) == {<<>>} \union {<<d>> : d \in data}

ServiceDocuments ==
    {Of(<<ServiceRun(status)>>, SeenServices(data)) :
        status \in {"complete", "partial"}, data \in OneOf(DOMAIN Services)}
    \union {Of(<<ServiceRun(status)>>, <<>>) :
        status \in {"permission_denied", "unavailable", "unsupported", "failed"}}

StartupDocuments ==
    {Of(<<StartupRun(status)>>, SeenEntries(data)) :
        status \in {"complete", "partial"},
        data \in OneOf(DOMAIN Entries) \union {<<"string_a", "unnamed">>}}
    \union {Of(<<StartupRun("permission_denied")>>, <<>>)}

BothDocuments ==
    {Of(<<StartupRun(status), ServiceRun("partial")>>,
              SeenEntries(entries) \o SeenServices(services)) :
        status \in {"complete", "partial"}, entries \in OneOf({"string_a", "string_b"}),
        services \in OneOf({"plain", "automatic"})}

TaskDocuments ==
    {Of(<<Covered("tasks", "root", "complete")>>,
              [k \in DOMAIN data |-> SeenBy("tasks", "root", data[k])]) :
        data \in OneOf({"task_a", "task_b"})}

MCDocuments ==
    SmallDocuments \union ServiceDocuments \union StartupDocuments
        \union BothDocuments \union TaskDocuments
=============================================================================
