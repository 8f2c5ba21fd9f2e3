SPECIFICATION SyncedSpec
CONSTANTS
    None = None
    Peers <- TwoPeers
    Clients = {1, 2}
    HomeOf <- OneClientEach
    Creator = 2
    Assignees = {None}
    BaseSeq = 8
    ClaimTtl = 1
    MaxClock = 3
    LastCall = 3
    MaxEntries = 5
CHECK_DEADLOCK FALSE
INVARIANT ReleaseReopens
