SPECIFICATION FairSpec
CONSTANTS
    None = None
    Peers <- TwoPeers
    Clients = {1, 2}
    HomeOf <- OneClientEach
    Creator = 2
    Assignees = {None, 1}
    BaseSeq = 0
    ClaimTtl = 0
    MaxClock = 2
    LastCall = 1
    MaxEntries = 4
INVARIANTS
    TypeOK
    OpenIsClaimable
    AnswerStands
PROPERTIES
    ImplementsBoard
    NoClaimDeadlock
CHECK_DEADLOCK FALSE
