---------------------------- MODULE ServicesScan ----------------------------
(***************************************************************************)
(* The Windows services collector (services.rs, win32_services.rs).  It    *)
(* lists the services page by page and then reads each of them, several    *)
(* times and part by part, until two reads agree, while other programs     *)
(* reconfigure, delete and create services.  One native call is one step,  *)
(* and so is one change by the environment.  Nothing relates the pages to  *)
(* each other or to the services found later; only the configuration of    *)
(* the service being read is in the state.                                 *)
(*                                                                         *)
(* A name stands for its identity hash, so the order of the names is the   *)
(* order of the identities.                                                *)
(***************************************************************************)
EXTENDS Snapshots, Sums, FiniteSets

CONSTANTS
    Names,            \* services, natural numbers
    NameSize,         \* NameSize[n]: bytes of the name n as evidence
    Values,           \* Values[p]: what part p of a configuration can be
    Size,             \* Size[v]: bytes that v takes in a buffer and as evidence
    Malformed,        \* values that normalize_service refuses
    NoPath,           \* values of the base part with an empty binary path
    PageSize,         \* bound of the model: services in one page
    MaxPages,         \* MAX_ENUMERATION_PAGES
    MaxServices,      \* MAX_SERVICES_PER_SCOPE
    MaxReads,         \* MAX_CONFIG_READS
    MaxTries,         \* MAX_QUERY_ATTEMPTS
    MaxQuery,         \* MAX_QUERY_BUFFER_BYTES
    MaxServiceBytes,  \* MAX_SERVICE_EVIDENCE_BYTES
    Budget,           \* MAX_SERVICES_COLLECTOR_EVIDENCE_BYTES
    MaxChanges,       \* bound of the model: changes are counted up to it
    None              \* no previous read

\* The native calls that one read is made of.
Parts == <<"base", "description", "delayed_auto_start">>

ASSUME ServicesAssumption ==
    /\ Names \subseteq Nat /\ \A n \in Names : NameSize[n] \in Nat
    /\ DOMAIN Values = DOMAIN Parts
    /\ \A p \in DOMAIN Parts : \A v \in Values[p] : Size[v] \in Nat
    /\ PageSize \in Nat /\ MaxPages \in Nat \ {0} /\ MaxServices \in Nat
    /\ MaxReads \in Nat \ {0, 1} /\ MaxTries \in Nat \ {0}
    /\ MaxQuery \in Nat /\ MaxServiceBytes \in Nat /\ Budget \in Nat
    /\ MaxChanges \in Nat

VARIABLES
    pc,         \* the native call that comes next
    page,       \* pages that have been read
    names,      \* enumerated services still to be read, in identity order
    omitted,    \* names were dropped at the limit of services
    listed,     \* history: every name a page has returned
    config,     \* the environment: configuration of the service being read, or None
    held,       \* history: configurations it had in its reads, up to MaxChanges changes
    changes,    \* history: how often it changed since then, up to MaxChanges
    reads,      \* reads that are complete
    part,       \* part that is read next
    need,       \* size of the buffer for it
    tries,      \* calls that found the buffer too small
    bundle,     \* parts this read has
    previous,   \* the read before it, or None
    found,      \* observations, in identity order
    diagnosed,  \* identities that a diagnostic names
    failed      \* the enumeration failed

serviceVars == <<config, held, changes>>
readVars == <<reads, part, need, tries, bundle, previous>>
listVars == <<page, names, omitted, listed>>
outcomeVars == <<found, diagnosed, failed>>
vars == <<pc, listVars, serviceVars, readVars, outcomeVars>>

-----------------------------------------------------------------------------
Configs == {c \in [DOMAIN Parts -> UNION Range(Values)] :
                \A p \in DOMAIN Parts : c[p] \in Values[p]}

ASSUME NoneIsNoConfig == None \notin Configs

Smaller(m, n) == IF m < n THEN m ELSE n

\* service_evidence_bytes of service n with configuration c
Bytes(n, c) == NameSize[n] + Size[c[1]] + Size[c[2]] + Size[c[3]]
Total(observations) ==
    SumOf([k \in DOMAIN observations |-> Bytes(observations[k].name, observations[k].datum)])

\* In identity order, equal ones in the order they came.
Sorted(seq) ==
    LET order == CHOOSE p \in [DOMAIN seq -> DOMAIN seq] :
                    \A i, j \in DOMAIN seq : i < j =>
                        \/ seq[p[i]] < seq[p[j]]
                        \/ seq[p[i]] = seq[p[j]] /\ p[i] < p[j]
    IN  [k \in DOMAIN seq |-> seq[order[k]]]

\* Mutant: what is dropped at the limit is not reported.
MutantDropSilently(rs, page_names) ==
    LET all == Sorted(rs \o page_names)
    IN  [names |-> SubSeq(all, 1, Smaller(Len(all), MaxServices)), omitted |-> FALSE]

\* The names of a page join the others in identity order; at the limit, the
\* last ones of that order go.
Retain(rs, page_names) ==
    LET all == Sorted(rs \o page_names)
        kept == SubSeq(all, 1, Smaller(Len(all), MaxServices))
    IN  [names |-> kept, omitted |-> kept # all]

Occurrences(n) == Cardinality({k \in DOMAIN names : names[k] = n})

\* The names behind those of the identity that comes first.
Others == SubSeq(names, Occurrences(Head(names)) + 1, Len(names))

Reading == {"open", "probe", "query"}

TypeOK ==
    /\ pc \in {"list", "page", "item", "done"} \union Reading
    /\ page \in 0 .. MaxPages - 1
    /\ Range(names) \subseteq Names /\ Len(names) <= MaxServices
    /\ omitted \in BOOLEAN
    /\ listed \subseteq Names
    /\ config \in Configs \union {None}
    /\ held \subseteq Configs
    /\ pc \in Reading => names # <<>> /\ (config \in held \union {None} \/ changes = MaxChanges)
    /\ changes \in 0 .. MaxChanges
    /\ reads \in 0 .. MaxReads - 1
    /\ part \in DOMAIN Parts
    /\ need \in Nat
    /\ tries \in 0 .. MaxTries - 1
    /\ Len(bundle) = part - 1 /\ \A p \in DOMAIN bundle : bundle[p] \in Values[p]
    /\ (previous = None) = (reads = 0)
    /\ previous # None => previous \in Configs
    /\ \A o \in Range(found) : o.name \in Names /\ o.datum \in Configs
    /\ Total(found) <= Budget
    /\ diagnosed \subseteq Names
    /\ failed \in {"no", "failed", "permission_denied"}

Init ==
    /\ pc = "list"
    /\ page = 0 /\ names = <<>> /\ omitted = FALSE /\ listed = {}
    /\ config = None /\ held = {} /\ changes = 0
    /\ reads = 0 /\ part = 1 /\ need = 0 /\ tries = 0 /\ bundle = <<>> /\ previous = None
    /\ found = <<>> /\ diagnosed = {} /\ failed = "no"

-----------------------------------------------------------------------------
(***************************************************************************)
(* The environment: configuration programs, one native call at a time.     *)
(***************************************************************************)
\* The history ends with the last change that is counted.
Changed(c) ==
    /\ config' = c
    /\ changes' = Smaller(changes + 1, MaxChanges)
    /\ held' = IF changes + 1 < MaxChanges THEN held \union ({c} \ {None}) ELSE {}
    /\ UNCHANGED <<pc, listVars, readVars, outcomeVars>>

\* ChangeServiceConfigW writes the base part, ChangeServiceConfig2W one other.
Reconfigure ==
    /\ pc \in Reading /\ config # None
    /\ \E p \in DOMAIN Parts : \E v \in Values[p] \ {config[p]} :
        Changed([config EXCEPT ![p] = v])

\* A service is deleted when no handle to it is open any more.
Delete == pc = "open" /\ config # None /\ Changed(None)

Create == pc \in Reading /\ config = None /\ \E c \in Configs : Changed(c)

Environment == Reconfigure \/ Delete \/ Create

-----------------------------------------------------------------------------
(***************************************************************************)
(* Enumeration                                                             *)
(***************************************************************************)
\* failed_outcome
Fail ==
    /\ failed' \in {"failed", "permission_denied"}
    /\ pc' = "done"
    /\ page' = 0 /\ names' = <<>> /\ omitted' = FALSE
    /\ UNCHANGED <<listed, found, diagnosed, serviceVars, readVars>>

\* OpenSCManagerW, and EnumServicesStatusExW for the size of the buffer.
ProbeList ==
    /\ pc = "list"
    /\ \/ /\ pc' \in {"item", "page"}    \* no service at all, or some
          /\ UNCHANGED <<listVars, serviceVars, readVars, outcomeVars>>
       \/ Fail

\* EnumServicesStatusExW.  More data must move the resume handle, and the pages
\* are limited.
ReadPage ==
    /\ pc = "page"
    /\ \/ \E page_names \in BoundedSeq(Names, PageSize), more \in BOOLEAN :
            LET retained == Retain(names, page_names)
            IN  /\ ~more \/ page + 1 < MaxPages
                /\ names' = retained.names
                /\ omitted' = (omitted \/ retained.omitted)
                /\ listed' = listed \union Range(page_names)
                /\ page' = IF more THEN page + 1 ELSE 0
                /\ pc' = IF more THEN "page" ELSE "item"
                /\ UNCHANGED <<serviceVars, readVars, outcomeVars>>
       \/ Fail    \* an error, invalid data, a resume handle that stalls, too many pages

-----------------------------------------------------------------------------
(***************************************************************************)
(* One service after the other                                             *)
(***************************************************************************)
Forget ==
    /\ config' = None /\ held' = {} /\ changes' = 0
    /\ reads' = 0 /\ part' = 1 /\ need' = 0 /\ tries' = 0 /\ bundle' = <<>> /\ previous' = None

\* The service is left out, and a diagnostic names it.
Drop ==
    /\ diagnosed' = diagnosed \union {Head(names)}
    /\ names' = Others
    /\ pc' = "item"
    /\ Forget
    /\ UNCHANGED <<page, omitted, listed, found, failed>>

Finish ==
    /\ pc = "item" /\ names = <<>>
    /\ pc' = "done"
    /\ UNCHANGED <<listVars, serviceVars, readVars, outcomeVars>>

\* Mutant: of several services with one identity, each is read.
MutantReadCollisions(n) == TRUE

SoleName(n) == Occurrences(n) = 1

TakeItem ==
    /\ pc = "item" /\ names # <<>>
    /\ \/ /\ SoleName(Head(names))
          /\ config' \in Configs \union {None}
          /\ held' = {config'} \ {None}
          /\ changes' = 0
          /\ pc' = "open"
          /\ UNCHANGED <<listVars, readVars, outcomeVars>>
       \/ ~SoleName(Head(names)) /\ Drop

\* OpenServiceW
Open ==
    /\ pc = "open"
    /\ \/ /\ config # None
          /\ pc' = "probe"
          /\ UNCHANGED <<listVars, serviceVars, readVars, outcomeVars>>
       \/ Drop    \* it does not exist, access is denied, or the call failed

\* QueryServiceConfigW or QueryServiceConfig2W for the size of the part.
Probe ==
    /\ pc = "probe"
    /\ \/ /\ need' = Size[config[part]]
          /\ pc' = "query"
          /\ UNCHANGED <<listVars, serviceVars, reads, part, tries, bundle, previous, outcomeVars>>
       \/ Drop

\* Mutant: the budget of the collector is not respected.
MutantServiceLimitOnly(n, c) == Bytes(n, c) <= MaxServiceBytes

WithinBudgets(n, c) ==
    Bytes(n, c) <= MaxServiceBytes /\ Total(found) + Bytes(n, c) <= Budget

\* normalize_service: strict UTF-16, and a Win32 service rather than a driver.
Normalizes(c) == Range(c) \intersect Malformed = {}

Emit(c) ==
    \/ /\ Normalizes(c) /\ WithinBudgets(Head(names), c)
       /\ found' = Append(found, [name |-> Head(names), datum |-> c])
       /\ names' = Tail(names)
       /\ pc' = "item"
       /\ Forget
       /\ UNCHANGED <<page, omitted, listed, diagnosed, failed>>
    \/ ~(Normalizes(c) /\ WithinBudgets(Head(names), c)) /\ Drop

ReadAgain(c) ==
    /\ reads' = reads + 1
    /\ previous' = c
    /\ pc' = "open" /\ part' = 1 /\ need' = 0 /\ tries' = 0 /\ bundle' = <<>>
    /\ UNCHANGED <<listVars, serviceVars, outcomeVars>>

\* Mutant: the first read is taken.
MutantReadOnce(c) == Emit(c)

\* Mutant: as many reads as it takes.
MutantReadForEver(c) ==
    \/ c = previous /\ Emit(c)
    \/ c # previous /\ previous = None /\ ReadAgain(c)
    \/ /\ c # previous /\ previous # None
       /\ previous' = c
       /\ pc' = "open" /\ part' = 1 /\ need' = 0 /\ tries' = 0 /\ bundle' = <<>>
       /\ UNCHANGED <<reads, listVars, serviceVars, outcomeVars>>

\* read_stable_config: two consecutive reads agree.
EndRead(c) ==
    \/ c = previous /\ Emit(c)
    \/ c # previous /\ reads + 1 < MaxReads /\ ReadAgain(c)
    \/ c # previous /\ reads + 1 = MaxReads /\ Drop

\* The same call with a buffer.
Query ==
    /\ pc = "query"
    /\ \/ /\ need <= MaxQuery /\ Size[config[part]] <= need
          /\ \/ /\ part < Len(Parts)
                /\ bundle' = Append(bundle, config[part])
                /\ part' = part + 1 /\ need' = 0 /\ tries' = 0
                /\ pc' = "probe"
                /\ UNCHANGED <<listVars, serviceVars, reads, previous, outcomeVars>>
             \/ part = Len(Parts) /\ EndRead(Append(bundle, config[part]))
       \/ /\ need <= MaxQuery /\ Size[config[part]] > need /\ tries + 1 < MaxTries
          /\ need' = Size[config[part]]
          /\ tries' = tries + 1
          /\ UNCHANGED <<pc, listVars, serviceVars, reads, part, bundle, previous, outcomeVars>>
       \/ Drop    \* too large, too many tries, or the call failed

Collector == ProbeList \/ ReadPage \/ Finish \/ TakeItem \/ Open \/ Probe \/ Query

Next == Environment \/ Collector

Spec == Init /\ [][Next]_vars

FairSpec == Spec /\ WF_vars(Collector)

-----------------------------------------------------------------------------
\* The outcome of the collector.  What was read is never more than partial:
\* the system may leave out services without saying so.
Document ==
    LET status == IF failed = "no" THEN "partial" ELSE failed
    IN  [enabled |-> <<"services">>,
         runs |-> <<[id |-> "services", version |-> 1, status |-> status,
                     coverage |-> <<[scope |-> "win32", status |-> status]>>,
                     diagnosed |-> {"win32"}]>>,
         observations |->
            [k \in DOMAIN found |->
                [collector |-> "services", version |-> 1, scope |-> "win32",
                 name |-> found[k].name, datum |-> found[k].datum]]]

\* validate_windows_service_observation
EvidenceValid(o) == o.datum[1] \notin NoPath

(***************************************************************************)
(* Properties                                                              *)
(***************************************************************************)

\* The run always fits into a valid Snapshot, however the enumeration repeated
\* names while services came and went.
DocumentValid == pc = "done" => Validates(Document)

\* A service that the enumeration returned and the Snapshot lacks is accounted
\* for: by a diagnostic with its identity, by the one about the limit, or by
\* the failure of the whole run.
NothingDroppedSilently ==
    pc = "done" /\ failed = "no" /\ ~omitted =>
        listed = diagnosed \union {o.name : o \in Range(found)}

\* Two equal reads do not make an observation atomic, but a configuration that
\* the service never had needs at least four changes to it within the reads.
TornNeedsFourChanges ==
    [][found' # found /\ changes < 4 => Last(found').datum \in held]_vars

\* Every loop is bounded: the collector ends however often services change.
Finishes == <>(pc = "done")

\* An item that is malformed is left out, and its siblings remain
\* (docs/collectors.md:61): no item can spoil the Snapshot.
MalformedOmitted ==
    pc = "done" => Validates(Document) /\ \A o \in Range(Document.observations) : EvidenceValid(o)
=============================================================================
