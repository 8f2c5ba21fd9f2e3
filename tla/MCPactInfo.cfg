SPECIFICATION FairSpec
CONSTANTS
    PactNames = {p, q}
    AgentNames = {m, n}
    FirstPactName = p
    FirstName = m
    Clients = {c}
    Slots <- TwoSlots
    None = None
    MaxChanges = 2
    MaxPosted = 1
    MaxMishaps = 1
INVARIANTS
    TypeOK
    NameIsSynced
    ConfigIsKept
PROPERTY DisplayNameSettles
CHECK_DEADLOCK FALSE
