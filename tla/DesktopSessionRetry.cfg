\* The retry that the cleanup notice offers, for one process.
CONSTANTS
    Instances = {i1}
    Workers = {w1}
    Main = main
    Sessions = {s1}
    Suspicious = {}
    None = None
SPECIFICATION Spec
INVARIANT CleanupRetryCanSucceed
