\* A service may have no image path.
CONSTANTS
    Names = {1, 2}
    NameSize <- MCNameSize
    Values <- MCNoPath
    Size <- MCSize
    Malformed = {"bad text"}
    NoPath = {"no path"}
    PageSize = 1
    MaxPages = 2
    MaxServices = 2
    MaxReads = 3
    MaxTries = 2
    MaxQuery = 2
    MaxServiceBytes = 6
    Budget = 12
    MaxChanges = 1
    None = None
SPECIFICATION Spec
INVARIANT MalformedOmitted
\* The collector returns.
CHECK_DEADLOCK FALSE
