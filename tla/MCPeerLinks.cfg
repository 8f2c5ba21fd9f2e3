SPECIFICATION FairSpec
CONSTANTS
    l1 = l1
    k1 = k1
    Self = Self
    None = None
    Links = {l1}
    Keys = {k1}
    MaxMisses = 2
    MaxTimers = 1
    MaxReads = 2
CHECK_DEADLOCK FALSE
INVARIANTS
    TypeOK
    PresenceIsTrue
PROPERTIES
    ReadmittedIsKept
    MemberIsAuthed
    FormerMemberIsCut
    DeadPeerIsCut
