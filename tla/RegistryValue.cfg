\* Every datum of each kind of type, and every name up to the limit, those
\* with a terminator included.
CONSTANTS
    Inputs <- MCInputs
    NameUnitSet = {"0", "a", "high", "low", "!", "*"}
    NameLimit = 3
SPECIFICATION Spec
\* The value has been taken over.
CHECK_DEADLOCK FALSE
INVARIANTS
    Lossless
    NameKept
    RefusedForTerminatorOnly
