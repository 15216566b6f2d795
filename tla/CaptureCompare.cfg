\* Two captures of one key with two names and two data, one write during each.
CONSTANTS
    Scopes = 1
    Names = {1, 2}
    Data = {d1, d2}
    MaxChanges = 1
SPECIFICATION CompareSpec
SYMMETRY Symmetry
INVARIANTS
    ChangesReal
    QuietScopesExact
