----------------------------- MODULE ResultViews -----------------------------
(***************************************************************************)
(* What a user is shown of a comparison (systemdiff-report): the groups    *)
(* and notices of the desktop page (presentation.rs), the terminal report  *)
(* and the technical text of the command line and of the desktop's details *)
(* (lib.rs).  The desktop compares its own captures only; the command line *)
(* compares any two files.                                                 *)
(*                                                                         *)
(* A text is a sequence of tokens, a character or a word each, so that two *)
(* texts that look alike are equal.  Lines and their order within a view   *)
(* are left out: a view is a record of what it shows for each change.      *)
(***************************************************************************)
EXTENDS DiffCall, FiniteSets

CONSTANTS
    ArtifactOf,    \* the artifact each datum stands for
    NoView

Kinds == {"registry", "service", "task"}

\* Two data are different artifacts, of which nothing else is looked at.
ASSUME ArtifactsDistinct == IsInjective(ArtifactOf)
ASSUME ArtifactsKinds == \A d \in DOMAIN ArtifactOf : ArtifactOf[d].kind \in Kinds
ASSUME ArtifactsKnown ==
    \A doc \in Documents : \A o \in Range(doc.observations) : o.datum \in DOMAIN ArtifactOf

IsText(t) == t \in Seq(Range(t))

\* Lists are lists, an Option holds at most one text, and a decoded value has
\* the content that its kind calls for.
IsOptionalText(option) == option = <<>> \/ (option = <<option[1]>> /\ IsText(option[1]))

IsService(a) ==
    \A option \in {a.display, a.account, a.group, a.description} : IsOptionalText(option)

IsValue(v) ==
    \/ v[1] \in {"string", "expand"} /\ v = <<v[1], v[2]>> /\ IsText(v[2])
    \/ v[1] = "multi" /\ v = <<v[1], v[2]>> /\ IsText(v[2]) /\ \A t \in Range(v[2]) : IsText(t)
    \/ v[1] \notin {"string", "expand", "multi"}

IsEntry(a) ==
    /\ a = [kind |-> "registry", decoded |-> a.decoded, name |-> a.name,
            location |-> a.location, value |-> a.value, content |-> a.content]
    /\ IsValue(a.value)

ASSUME ArtifactsShaped ==
    \A d \in DOMAIN ArtifactOf :
        /\ ArtifactOf[d].kind = "service" => IsService(ArtifactOf[d])
        /\ ArtifactOf[d].kind = "registry" => IsEntry(ArtifactOf[d])

\* The key of a service is a hash of its name, and validate refuses any other:
\* documents in which a service has a key that is not its own are left out.  The
\* key of a registry entry is not held against its name.
ASSUME ServicesNamedByKey ==
    LET observed == UNION {Range(doc.observations) : doc \in Documents}
        services == {o \in observed : ArtifactOf[o.datum].kind = "service"}
    IN  \A o, p \in services : KeyOf(o) = KeyOf(p) =>
            ArtifactOf[o.datum].name = ArtifactOf[p.datum].name

VARIABLES
    desktop,      \* the presentation that the desktop keeps
    terminal,     \* the report that the command line has printed
    technical     \* the technical text of either

viewVars == <<vars, desktop, terminal, technical>>

-----------------------------------------------------------------------------
(***************************************************************************)
(* Texts                                                                   *)
(***************************************************************************)
Backslash == "\\"
LineFeed == "\n"
Quote == "\""

\* terminal_text: control characters are written out, a backslash is not.
Escape(t) ==
    FlattenSeq([k \in DOMAIN t |->
        IF t[k] = LineFeed THEN <<Backslash, "n">> ELSE <<t[k]>>])

\* Mutant: a literal without its quotes.
MutantLiteral(t) == Escape(t)

\* technical_literal: quoted, with backslashes and quotes written out.
Literal(t) ==
    <<Quote>>
    \o FlattenSeq([k \in DOMAIN t |->
           CASE t[k] = LineFeed -> <<Backslash, "n">>
             [] t[k] \in {Backslash, Quote} -> <<Backslash, t[k]>>
             [] OTHER -> <<t[k]>>])
    \o <<Quote>>

Escapes(ts) == [k \in DOMAIN ts |-> Escape(ts[k])]

Joined(ts, separator) ==
    FlattenSeq([k \in DOMAIN ts |->
        IF k = 1 THEN Escape(ts[k]) ELSE <<separator>> \o Escape(ts[k])])

\* An Option is a sequence of at most one element.
Given(option, Of(_), otherwise) == IF option = <<>> THEN otherwise ELSE Of(option[1])

-----------------------------------------------------------------------------
(***************************************************************************)
(* Changes                                                                 *)
(***************************************************************************)

\* change_artifact
ShownDatum(c) ==
    CASE c.change = "removed" -> c.before
      [] c.change = "inconclusive" /\ c.before # Absent -> c.before
      [] OTHER -> c.after

Shown(c) == ArtifactOf[ShownDatum(c)]

OfKind(cs, kind) == {c \in cs : Shown(c).kind = kind}

\* A section of a view: what is shown of each change, by the change's key.
ByKey(shown) ==
    [key \in {c.key : c \in DOMAIN shown} |->
        shown[CHOOSE c \in DOMAIN shown : c.key = key]]

Confirmed(cs) == {c \in cs : c.change \in {"added", "removed", "modified"}}

Inconclusive(cs) == {c \in cs : c.change = "inconclusive"}

\* What include_unchanged adds to the changes of diff_snapshots.
UnchangedChanges(old, new) ==
    {[key |-> key, before |-> Lookup(old, key), after |-> Lookup(new, key),
      change |-> "unchanged"] :
        key \in {k \in Keys(old, new) : Lookup(old, k) = Lookup(new, k)}}

-----------------------------------------------------------------------------
(***************************************************************************)
(* build_desktop_presentation                                              *)
(***************************************************************************)
Evidence(t) == <<"evidence", Escape(t)>>
Message(id) == <<"message", id>>
Number(n) == <<"number", n>>

EvidenceList(ts) ==
    IF ts = <<>> THEN Message("none") ELSE <<"list", Escapes(ts)>>

\* registry_value
RegistryValue(entry) ==
    CASE entry.value[1] \in {"string", "expand"} -> Evidence(entry.value[2])
      [] entry.value[1] = "multi" -> EvidenceList(entry.value[2])
      [] entry.value[1] \in {"dword", "qword"} -> Number(entry.value[2])
      [] OTHER -> Message("unavailable")

\* registry_name
RegistryName(entry) ==
    CASE ~entry.decoded -> Message("undecodable_name")
      [] entry.name = <<>> -> Message("default_name")
      [] OTHER -> Evidence(entry.name)

RegistryItem(c) ==
    LET entry == Shown(c)
        old == RegistryValue(ArtifactOf[c.before])
        new == RegistryValue(ArtifactOf[c.after])
    IN  [change |-> c.change,
         headline |-> RegistryName(entry),
         fields |->
            [location |-> <<"current", Evidence(entry.location)>>,
             command |-> IF c.change = "modified" /\ old # new
                         THEN <<"changed", old, new>>
                         ELSE <<"current", RegistryValue(entry)>>]]

\* service_start and human_service_start have the same names.
StartName(start, delayed) ==
    CASE start = 0 -> "boot"
      [] start = 1 -> "system"
      [] start = 2 /\ delayed -> "automatic_delayed"
      [] start = 2 -> "automatic"
      [] start = 3 -> "manual"
      [] start = 4 -> "disabled"
      [] OTHER -> "unknown"

\* service_error_control and human_error_control.
ErrorControlName(error) ==
    CASE error = 0 -> "ignore"
      [] error = 1 -> "normal"
      [] error = 2 -> "severe"
      [] error = 3 -> "critical"
      [] OTHER -> "unknown"

\* The fields of a service as the desktop shows them.
ServiceValues(s) ==
    [name |-> Evidence(s.name),
     display |-> Given(s.display, Evidence, Message("not_set")),
     type |-> Number(s.type),
     start |-> Message(StartName(s.start, s.delayed)),
     delayed |-> <<"boolean", s.delayed>>,
     error |-> Message(ErrorControlName(s.error)),
     path |-> Evidence(s.path),
     account |-> Given(s.account, Evidence, Message("not_set")),
     dependencies |-> EvidenceList(s.dependencies),
     group |-> Given(s.group, Evidence, Message("not_set")),
     tag |-> Given(s.tag, Number, Message("not_set")),
     description |-> Given(s.description, Evidence, Message("not_set"))]

ServiceFields == {"name", "display", "type", "start", "delayed", "error", "path",
                  "account", "dependencies", "group", "tag", "description"}

SummaryFields == {"name", "start", "path", "account"}

\* Mutant: the description is not compared.
MutantSource(s, field) == IF field = "description" THEN "" ELSE s[field]

\* What changed_service_fields compares to tell whether a field has changed.
Source(s, field) == IF field = "start" THEN <<s.start, s.delayed>> ELSE s[field]

ServiceItem(c) ==
    LET old == ArtifactOf[c.before]
        new == ArtifactOf[c.after]
        shown == ServiceValues(Shown(c))
    IN  [change |-> c.change,
         headline |-> Evidence(Given(Shown(c).display, LAMBDA t : t, Shown(c).name)),
         fields |->
            CASE c.change = "modified" ->
                    [f \in {g \in ServiceFields : Source(old, g) # Source(new, g)} |->
                        <<"changed", ServiceValues(old)[f], ServiceValues(new)[f]>>]
              [] c.change = "unchanged" -> <<>>
              [] OTHER -> [f \in SummaryFields |-> <<"current", shown[f]>>]]

\* Mutant: an incomplete side is taken for the other one.
MutantNoticeMessage(old, new) ==
    CASE old # "complete" /\ new = "complete" -> "after"
      [] old = "complete" /\ new # "complete" -> "before"
      [] OTHER -> "both"

\* Which capture a notice says was incomplete.
NoticeMessage(old, new) ==
    CASE old # "complete" /\ new = "complete" -> "before"
      [] old = "complete" /\ new # "complete" -> "after"
      [] OTHER -> "both"

StartupId == "windows.registry.startup"
ServicesId == "windows.services"

NoticeGroup(collector) ==
    CASE collector = StartupId -> "startup"
      [] collector = ServicesId -> "services"
      [] OTHER -> "no_group"

KnownScopes ==
    {<<ServicesId, "current_token.win32">>}
    \union {StartupId} \X
        {"current_user.shared.run", "current_user.shared.run_once",
         "local_machine.native.run", "local_machine.native.run_once",
         "local_machine.registry32.run", "local_machine.registry32.run_once",
         "local_machine.registry64.run", "local_machine.registry64.run_once"}

StatusAt(doc, at) ==
    IF at \in DOMAIN CoverageIndex(doc) THEN CoverageIndex(doc)[at] ELSE "none"

Notice(at) ==
    [group |-> NoticeGroup(at[1]),
     message |-> NoticeMessage(StatusAt(before, at), StatusAt(after, at)),
     scope |-> IF at \in KnownScopes THEN at ELSE <<"unknown">>,
     statuses |-> <<StatusAt(before, at), StatusAt(after, at)>>]

Presentation(cs) ==
    LET shown == OfKind(cs, "registry") \union OfKind(cs, "service")
    IN  [confirmed |-> Cardinality(Confirmed(shown)),
         inconclusive |-> Cardinality(Inconclusive(shown)),
         startup |-> ByKey([c \in OfKind(cs, "registry") |-> RegistryItem(c)]),
         services |-> ByKey([c \in OfKind(cs, "service") |-> ServiceItem(c)]),
         notices |-> [at \in warnings |-> Notice(at)]]

\* The headline of the page and its two group texts say that nothing changed.
PageQuiet(view) == view.confirmed = 0 /\ view.inconclusive = 0

-----------------------------------------------------------------------------
(***************************************************************************)
(* render_terminal                                                         *)
(***************************************************************************)
HumanDecoded(value) ==
    CASE value[1] \in {"string", "expand"} -> <<"text", Escape(value[2])>>
      [] value[1] = "multi" -> <<"text", Joined(value[2], " | ")>>
      [] OTHER -> <<"number", value[2]>>

\* render_human_value: the label, and the value or why it was not decoded.
HumanValue(heading, entry) ==
    CASE entry.value[1] \in {"invalid", "unsupported", "not_applicable"} ->
            <<"not_decoded", <<"reason", entry.value[1]>>>>
      [] entry.value[1] \in {"string", "expand"} /\ heading = "Value" ->
            <<"Command", HumanDecoded(entry.value)>>
      [] OTHER -> <<heading, HumanDecoded(entry.value)>>

\* decoded_command
Command(entry) ==
    IF entry.value[1] \in {"string", "expand"} THEN <<entry.value[2]>> ELSE <<>>

CommandChanged(old, new) ==
    Command(old) # <<>> /\ Command(new) # <<>> /\ Command(old) # Command(new)

HumanName(entry) ==
    CASE ~entry.decoded -> <<"Name could not be decoded as UTF-16">>
      [] entry.name = <<>> -> <<"Default value (unnamed)">>
      [] OTHER -> Escape(entry.name)

HumanRegistry(c) ==
    LET entry == Shown(c)
        old == ArtifactOf[c.before]
        new == ArtifactOf[c.after]
    IN  [change |-> c.change,
         heading |-> HumanName(entry),
         location |-> Escape(entry.location),
         statement |->
            CASE c.change = "modified" ->
                    IF CommandChanged(old, new) THEN "command_changed"
                    ELSE "evidence_changed"
              [] c.change = "inconclusive" -> "scope_incomplete"
              [] OTHER -> c.change,
         values |->
            CASE c.change = "modified" ->
                    <<HumanValue("Before", old), HumanValue("After", new)>>
              [] c.change = "removed" -> <<HumanValue("Previous value", entry)>>
              [] c.change = "inconclusive" -> <<HumanValue("Observed value", entry)>>
              [] OTHER -> <<HumanValue("Value", entry)>>]

NotSet == <<"Not set">>

\* The fields of a service as the terminal shows them.
HumanValues(s) ==
    LET optional(o) == Given(o, Escape, NotSet)
    IN  [name |-> Escape(s.name),
         display |-> optional(s.display),
         type |-> s.type,
         start |-> <<StartName(s.start, s.delayed), IF s.start > 4 THEN s.start ELSE 0>>,
         delayed |-> s.delayed,
         error |-> <<ErrorControlName(s.error), s.error>>,
         path |-> Escape(s.path),
         account |-> optional(s.account),
         dependencies |-> IF s.dependencies = <<>> THEN <<"None">>
                          ELSE Joined(s.dependencies, ", "),
         group |-> optional(s.group),
         tag |-> s.tag,
         description |-> optional(s.description)]

\* Which Snapshot the report says was incomplete.
Explanation(c) ==
    CASE c.after = Absent -> "after"
      [] c.before = Absent -> "before"
      [] OTHER -> "both"

HumanService(c) ==
    LET old == ArtifactOf[c.before]
        new == ArtifactOf[c.after]
        shown == HumanValues(Shown(c))
    IN  [change |-> c.change,
         heading |-> Escape(Given(Shown(c).display, LAMBDA t : t, Shown(c).name)),
         explanation |-> IF c.change = "inconclusive" THEN Explanation(c) ELSE "none",
         fields |->
            CASE c.change = "modified" ->
                    [f \in {g \in ServiceFields : old[g] # new[g]} |->
                        <<"changed", HumanValues(old)[f], HumanValues(new)[f]>>]
              [] c.change = "unchanged" -> <<>>
              [] OTHER -> [f \in SummaryFields \ {"name"} |-> <<"current", shown[f]>>]]

HumanOther(c) == [change |-> c.change, heading |-> Escape(Shown(c).path)]

\* Mutant: the warnings are not looked at.
MutantNothingFound(cs) == cs = {}

\* "No changes found"
NothingFound(cs) == cs = {} /\ warnings = {}

Report(cs) ==
    [quiet |-> NothingFound(cs),
     confirmed |-> Cardinality(Confirmed(cs)),
     inconclusive |-> Cardinality(Inconclusive(cs)),
     unchanged |-> Cardinality(cs \ (Confirmed(cs) \union Inconclusive(cs))),
     registry |-> ByKey([c \in OfKind(cs, "registry") |-> HumanRegistry(c)]),
     services |-> ByKey([c \in OfKind(cs, "service") |-> HumanService(c)]),
     other |-> ByKey([c \in OfKind(cs, "task") |-> HumanOther(c)]),
     notes |-> [at \in warnings |-> <<StatusAt(before, at), StatusAt(after, at)>>]]

-----------------------------------------------------------------------------
(***************************************************************************)
(* render_technical                                                        *)
(***************************************************************************)
OptionalLiteral(option) == Given(option, Literal, <<"none">>)

TechnicalService(s) ==
    [name |-> Escape(s.name),
     display |-> OptionalLiteral(s.display),
     numbers |-> <<s.type, s.start, s.error, s.tag>>,
     path |-> Escape(s.path),
     account |-> OptionalLiteral(s.account),
     dependencies |-> Escapes(s.dependencies),
     group |-> OptionalLiteral(s.group),
     delayed |-> s.delayed,
     description |-> OptionalLiteral(s.description)]

TechnicalDecoded(value) ==
    CASE value[1] \in {"string", "expand"} -> <<value[1], Literal(value[2])>>
      [] value[1] = "multi" ->
            <<value[1], [k \in DOMAIN value[2] |-> Literal(value[2][k])]>>
      [] OTHER -> value

\* The content's hash stands for the raw evidence that is printed as well.
TechnicalRegistry(entry) ==
    [location |-> Escape(entry.location),
     name |-> CASE ~entry.decoded -> <<"invalid_utf16", entry.name>>
                [] entry.name = <<>> -> <<"decoded", <<"<empty>">>>>
                [] OTHER -> <<"decoded", Escape(entry.name)>>,
     value |-> TechnicalDecoded(entry.value),
     content |-> entry.content]

\* Of a task, the number of its actions is printed, and not what they are.
TechnicalTask(task) ==
    [path |-> Escape(task.path), enabled |-> task.enabled, hidden |-> task.hidden,
     actions |-> Len(task.actions)]

TechnicalArtifact(datum) ==
    IF datum = Absent THEN <<"no observation">>
    ELSE LET artifact == ArtifactOf[datum]
         IN  CASE artifact.kind = "service" -> <<"service", TechnicalService(artifact)>>
               [] artifact.kind = "registry" -> <<"registry", TechnicalRegistry(artifact)>>
               [] artifact.kind = "task" -> <<"task", TechnicalTask(artifact)>>

TechnicalChange(c) ==
    [change |-> c.change, old |-> TechnicalArtifact(c.before),
     new |-> TechnicalArtifact(c.after)]

\* render_snapshot_coverage and render_snapshot_diagnostics
TechnicalCoverage(doc) ==
    {[id |-> run.id, version |-> run.version, status |-> run.status,
      scopes |-> Range(run.coverage), diagnosed |-> run.diagnosed] : run \in Range(doc.runs)}

TechnicalText(cs) ==
    [counts |-> [kind \in {"added", "modified", "removed", "inconclusive", "unchanged"} |->
                    Cardinality({c \in cs : c.change = kind})],
     changes |-> ByKey([c \in cs |-> TechnicalChange(c)]),
     coverage |-> <<TechnicalCoverage(before), TechnicalCoverage(after)>>,
     notes |-> [at \in warnings |-> <<StatusAt(before, at), StatusAt(after, at)>>]]

-----------------------------------------------------------------------------
ViewsInit ==
    /\ Init
    /\ desktop = NoView
    /\ terminal = NoView
    /\ technical = NoView

Diffing ==
    /\ Next
    /\ UNCHANGED <<desktop, terminal, technical>>

\* A document that this program's collectors make: each has its own kind of
\* artifact, and services are never covered completely.
Own(doc) ==
    /\ \A o \in Range(doc.observations) :
           ArtifactOf[o.datum].kind = CASE o.collector = StartupId -> "registry"
                                        [] o.collector = ServicesId -> "service"
                                        [] OTHER -> "task"
    /\ \A run \in Range(doc.runs) :
           /\ run.id \in {StartupId, ServicesId}
           /\ run.id = ServicesId => run.status # "complete"

\* finish_capture_work: the desktop shows its own two captures.
Present ==
    /\ pc = "compared" /\ desktop = NoView
    /\ Own(before) /\ Own(after)
    /\ desktop' = Presentation(changes)
    /\ technical' = TechnicalText(changes)
    /\ UNCHANGED <<vars, terminal>>

Listed(include) ==
    IF include THEN changes \union UnchangedChanges(before, after) ELSE changes

\* diff
PrintTerminal ==
    /\ pc = "compared" /\ terminal = NoView
    /\ \E include \in BOOLEAN : terminal' = Report(Listed(include))
    /\ UNCHANGED <<vars, desktop, technical>>

\* diff --technical
PrintTechnical ==
    /\ pc = "compared" /\ technical = NoView
    /\ \E include \in BOOLEAN : technical' = TechnicalText(Listed(include))
    /\ UNCHANGED <<vars, desktop, terminal>>

ViewsNext == Diffing \/ Present \/ PrintTerminal \/ PrintTechnical

ViewsSpec == ViewsInit /\ [][ViewsNext]_viewVars

-----------------------------------------------------------------------------
(***************************************************************************)
(* Properties                                                              *)
(***************************************************************************)
\* The counts of the summaries are those of the items below them, and the page
\* and the terminal tell one story of two captures: the same changes in the
\* same sections, and for each service the same fields as changed, but for the
\* start, which the page also shows when only its delay has changed.
CountsAgree ==
    /\ desktop # NoView =>
        desktop.confirmed + desktop.inconclusive =
            Cardinality(DOMAIN desktop.startup) + Cardinality(DOMAIN desktop.services)
    /\ terminal # NoView =>
        terminal.confirmed + terminal.inconclusive + terminal.unchanged =
            Cardinality(DOMAIN terminal.registry) + Cardinality(DOMAIN terminal.services)
                + Cardinality(DOMAIN terminal.other)

SameStory ==
    desktop # NoView /\ terminal # NoView /\ terminal.unchanged = 0 =>
        /\ desktop.confirmed = terminal.confirmed
        /\ desktop.inconclusive = terminal.inconclusive
        /\ DOMAIN desktop.startup = DOMAIN terminal.registry
        /\ DOMAIN desktop.services = DOMAIN terminal.services
        /\ \A key \in DOMAIN desktop.startup :
               desktop.startup[key].change = terminal.registry[key].change
        /\ \A key \in DOMAIN desktop.services :
               LET item == desktop.services[key]
                   entry == terminal.services[key]
               IN  /\ item.change = entry.change
                   /\ item.change = "modified" =>
                        DOMAIN entry.fields \subseteq DOMAIN item.fields
                   /\ item.change = "modified" =>
                        DOMAIN item.fields \ DOMAIN entry.fields \subseteq {"start"}

ViewsAgree == CountsAgree /\ SameStory

\* Whoever sees an item that could not be confirmed finds a notice of its group
\* on the page, about a capture whose coverage was indeed incomplete.
NoticesExplain ==
    desktop # NoView =>
        \A c \in Inconclusive(changes) :
            LET notice == desktop.notices[ScopeOf(c)]
            IN  /\ ScopeOf(c) \in DOMAIN desktop.notices
                /\ notice.group = IF Shown(c).kind = "registry" THEN "startup"
                                  ELSE "services"
                /\ notice.message \in {"before", "both"} =>
                        ScopeStatus(before, c.key) # "complete"
                /\ notice.message \in {"after", "both"} =>
                        ScopeStatus(after, c.key) # "complete"

\* "No changes found" is said of equal evidence under complete coverage only,
\* and the page, which has a headline and notices apart, says of two captures
\* that nothing was observed to change only if their evidence is equal.
QuietMeansEqual ==
    /\ terminal # NoView /\ terminal.quiet =>
        /\ Index(before) = Index(after)
        /\ \A key \in Keys(before, after) : CoverageComplete(before, after, key)
        /\ DOMAIN CoverageIndex(before) = DOMAIN CoverageIndex(after)
    /\ desktop # NoView /\ PageQuiet(desktop) =>
        /\ Index(before) = Index(after)
        /\ DOMAIN desktop.startup = {} /\ DOMAIN desktop.services = {}

\* Texts that differ only in how terminal_text writes control characters.
Alike(a, b) ==
    /\ a.kind = "service" /\ b.kind = "service"
    /\ \A f \in ServiceFields \ {"path", "dependencies"} : a[f] = b[f]
    /\ Escape(a.path) = Escape(b.path)
    /\ Escapes(a.dependencies) = Escapes(b.dependencies)

\* Registry entries of one key that are not of one name and place: only a file
\* that this program did not write has them.
Renamed(a, b) ==
    a.kind = "registry" /\ b.kind = "registry"
        /\ <<a.location, a.decoded, a.name>> # <<b.location, b.decoded, b.name>>

\* Whatever has been modified, the technical text shows two different artifacts,
\* unless paths or dependencies of a service differ in control characters only,
\* or a foreign file gives one key to two registry names, or it is the actions
\* of a task, of which only the number is printed.
DifferenceShown ==
    technical # NoView =>
        \A c \in changes :
            c.change = "modified" /\ Shown(c).kind # "task" =>
                \/ technical.changes[c.key].old # technical.changes[c.key].new
                \/ Alike(ArtifactOf[c.before], ArtifactOf[c.after])
                \/ Renamed(ArtifactOf[c.before], ArtifactOf[c.after])
=============================================================================
