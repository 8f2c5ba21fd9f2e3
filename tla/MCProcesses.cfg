SPECIFICATION Spec
CONSTANTS
    Pids = {1, 2, 3, 4}
    Cmds = {u, v}
    Pacts = {k}
    None = None
    MaxCommands = 5
    MaxCrashes = 2
SYMMETRY Symmetric
INVARIANTS
    TypeOK
    DaemonIsReachable
PROPERTY CommandsTellTheTruth
CHECK_DEADLOCK FALSE
