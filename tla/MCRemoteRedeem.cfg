SPECIFICATION FairSpec
CONSTANTS
    a = a
    Rival = Rival
    c = c
    p = p
    None = None
    Joiners = {a}
    Creator = c
    Others = {p}
    Rounds = {1, 2}
CHECK_DEADLOCK FALSE
INVARIANTS
    TypeOK
    SuccessIsAdmission
    GivenUpForAReason
PROPERTIES
    ImplementsInvites
    JoinSucceeds
