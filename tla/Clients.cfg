\* One part at a time. Each has bounds that stop it.
SPECIFICATION MCSpec
CONSTANTS
    MaxPages = 3
    MaxRequests = 2
    MaxMoves = 2
    MaxChoices = 2
    MaxOrders = 2
    BookRows = {1}
    LastCep = 2
    MaxEdits = 3
    MaxErrands = 1
    MaxVisits = 2
    MaxLookups = 1
    Sales = {1, 2}
    PanelLimit = 1
    LastHour = 13
    MaxTyped = 2
INVARIANTS
    SearchShowsItsQuery
    ChoicesAreKept
    DrawerShowsItsAddress
    RegisteredWordsWereSaved
    PanelIsTrue
    SavedIsKept
PROPERTIES
    RefusalMeansStale
    NewestChoiceWins
CHECK_DEADLOCK FALSE
