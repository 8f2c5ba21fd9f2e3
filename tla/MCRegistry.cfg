SPECIFICATION Spec
CONSTANTS
    Aliases = {a, b}
    Pacts = {p, q}
    Workers = {u, v}
    MaxCrashes = 1
    None = None
    Bare = Bare
SYMMETRY Symmetric
INVARIANTS
    TypeOK
    RegisteredLoads
    OpenIsRegistered
PROPERTY NothingVanishes
CHECK_DEADLOCK FALSE
