\* Two calls of the admin API on any registry of two tables and its rules.
CONSTANTS
    Calls = {c1, c2}
    Kinds = {client, bot}
    Ids = {i1, i2}
    Names = {n1, n2}
    Places = {p, wide}
    Unstorable = {wide}
    NotGiven = NotGiven
    Null = Null
    Unused = Unused
    Gone = Gone
    MaxFaults = 1
SPECIFICATION Spec
INVARIANTS
    TypeOK
    ReferencesResolve
    ServerErrorHasACause
    DeletedOnce
SYMMETRY Symmetry
CHECK_DEADLOCK FALSE
