\* Two snapshot commands that may be given one path, a diff, and a file from
\* elsewhere.
CONSTANTS
    Writers = {w1, w2}
    Readers = {r1}
    Given = {g1}
    Paths = {p1, p2}
    Documents <- MCDocuments
    Limit = 2
    MaxExtra = 1
    None = None
SPECIFICATION Spec
SYMMETRY Symmetry
\* The commands end.
CHECK_DEADLOCK FALSE
INVARIANTS
    ReportedWhole
    RefusedForAReason
    LoadedWhole
