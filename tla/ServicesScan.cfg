\* Two services, enumerated twice or dropped, malformed or over a budget, under
\* any stream of changes and under fairness of the collector.
CONSTANTS
    Names = {1, 2}
    NameSize <- MCNameSize
    Values <- MCValues
    Size <- MCSize
    Malformed = {"bad text"}
    NoPath = {}
    PageSize = 2
    MaxPages = 2
    MaxServices = 2
    MaxReads = 3
    MaxTries = 2
    MaxQuery = 2
    MaxServiceBytes = 5
    Budget = 9
    MaxChanges = 4
    None = None
SPECIFICATION FairSpec
INVARIANTS
    TypeOK
    DocumentValid
    NothingDroppedSilently
PROPERTIES
    TornNeedsFourChanges
    Finishes
\* The collector returns.
CHECK_DEADLOCK FALSE
