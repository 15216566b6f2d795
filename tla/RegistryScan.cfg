\* One key with up to two values, any stream of writes, two attempts, beside a
\* layout that was or was not detected.
CONSTANTS
    Scopes = 1
    Names = {1, 2}
    NameUnits <- MCNameUnits
    Data = {"short", "long"}
    DataBytes <- MCDataBytes
    TypeOf <- MCTypeOf
    Budget = 6
    MaxValueBytes = 4
    MaxNameUnits = 2
    MaxValues = 3
    MaxAttempts = 2
    MaxGrowth = 2
    MaxKeyValues = 2
    Layouts = {"known", "failed"}
    None = None
SPECIFICATION Spec
INVARIANTS
    TypeOK
    DocumentValid
PROPERTIES
    ImplementsCapture
\* The collector returns.
CHECK_DEADLOCK FALSE
