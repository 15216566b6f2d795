\* One reload of the page, and results that can be told from the ones before.
CONSTANTS
    MaxCalls = 3
    MaxResults = 2
    MaxReloads = 1
SPECIFICATION FairSpec
INVARIANTS
    TypeOK
    ViewIsCurrent
    ConflictsNeedReload
    DetailsFit
PROPERTIES
    UserIsOffered
\* A process that failed to set up its session has nothing to offer: the page
\* that says so is an end.
CHECK_DEADLOCK FALSE
