\* Two keys that share the budget and may hold more than a scope reads, after a
\* layout that could not be detected, under fairness of the collector.
CONSTANTS
    Scopes = 2
    Names = {1, 2}
    NameUnits <- MCNameUnits
    Data = {"short", "huge"}
    DataBytes <- MCDataBytes
    TypeOf <- MCTypeOf
    Budget = 6
    MaxValueBytes = 4
    MaxNameUnits = 2
    MaxValues = 1
    MaxAttempts = 2
    MaxGrowth = 2
    MaxKeyValues = 2
    Layouts = {"failed"}
    None = None
SPECIFICATION FairSpec
INVARIANTS
    BudgetRespected
PROPERTIES
    CompleteIsSnapshot
    Finishes
\* The collector returns.
CHECK_DEADLOCK FALSE
