\* One part at a time. Each has bounds that stop it.
SPECIFICATION MCSpec
CONSTANTS
    MaxRoleChanges = 1
    MaxVisits = 2
    MaxWire = 2
    MaxReviews = 1
    Bookings = {o1, o2}
    Sellers = {s1, s2}
    Week = 2
    Offset = 1
    Target = 1
    RehireWindow = 1
    MaxClock = 3
    ProviderIds = {1, 2, 3}
    PageLimit = 1
    MaxDecisions = 2
    LastTick = 2
    MaxDays = 2
    LastInstant = 3
    ListLimit = 1
    MaxTurns = 2
    Staff = {1}
    MaxErrands = 2
    MaxChanges = 1
    MaxRulings = 2
    MaxLoads = 2
    Entries = {1, 2, 3}
    Offers = {1, 2}
    DeskLimit = 2
    MaxSteps = 4
    MaxOthers = 1
    MaxSaves = 2
    PersonalFields = {"name", "email", "cpf"}
    SecretKeys = {"token"}
    ContainerKeys = {"user"}
    Documents <- MCDocuments
INVARIANTS
    ListsAndFiguresAgree
    ReapplyingKeepsRows
    RoleChosenAsListed
    RecordShowsItsDecision
    SavesBelongTogether
    NothingSecretIsWritten
PROPERTIES
    SessionsServeTheirRole
    DecisionWasOffered
    ReportsAreKept
CONSTRAINT PagesOfAKind
SYMMETRY SellerSymmetry
CHECK_DEADLOCK FALSE
