SPECIFICATION Spec
CONSTANTS
    None = None
    Peers <- TwoPeers
    Clients = {1, 2}
    HomeOf <- OneClientEach
    Creator = 2
    Assignees = {None}
    BaseSeq = 0
    ClaimTtl = 1
    MaxClock = 2
    LastCall = 2
    MaxEntries = 4
CHECK_DEADLOCK FALSE
INVARIANT LostClaimStaysLost
