\* Two processes, one command thread each, one live session name and one reused
\* one, one suspicious entry.
CONSTANTS
    Instances = {i1, i2}
    Workers = {w1}
    Main = main
    Sessions = {s1, s2}
    Suspicious = {x1}
    None = None
SPECIFICATION Spec
SYMMETRY Symmetry
INVARIANTS
    TypeOK
    ExclusiveOwner
    EvidenceRecoverable
    NoSilentEvidence
    BaselineKept
PROPERTIES
    SuspiciousUntouched
    ImplementsLifecycle
