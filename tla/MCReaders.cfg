SPECIFICATION FairSpec
CONSTANTS
    Entries = {1, 2, 3, 4}
    TypeOrder <- TwoTypes
    TypeOf <- TypeOfEach
    Limit = 1
    ListType = "skill"
    SkillType = "skill"
    FileOf <- FileOfEach
    Installers = {u, v}
    MaxInstalls = 4
    MaxKills = 1
    PageSize = 1
    MaxDrops = 1
    Threshold = 1
    MaxClock = 3
    ShowLimit = 1
    None = None
    Asked = Asked
INVARIANTS
    TypeOK
    FeedIsExact
    ListsAll
    PageIsFresh
    PromptTells
    InstalledIsTrue
PROPERTY FeedDelivers
CHECK_DEADLOCK FALSE
