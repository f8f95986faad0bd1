\* One part at a time. Each has bounds that stop it.
SPECIFICATION MCSpec
CONSTANTS
    Callers = {c1, c2}
    Cooldown = 1
    LinkLifetime = 2
    TicksPerSecond = 2
    MaxTime = 4
    MaxLinks = 2
    Users = {u1, u2}
    Emails = {e1, e2}
    Processes = {p1}
    MaxCodes = 2
    Overlap = FALSE
    Lease = 2
    RefreshInterval = 0
    CallTimeout = 1
    MaxRecipients = 2
    Reviewers = {v1, v2, v3}
    MaxDecisions = 5
    Orders = {o1, o2, o3}
    Ratings = {1, 5}
    DayLength = 5
    DaysPerWeek = 2
    DefaultSlot = 2
    MinSlot = 1
    MaxSlot = 2
    MaxWindows = 3
SYMMETRY MCSymmetry
INVARIANTS
    LinkResetsOnce
    OldSessionsEnd
    AccountsTellTheTruth
    OneUpdateAtGateway
    DecisionsExplainStatus
    ReputationMatchesReviews
    HoursCanBeKept
PROPERTIES
    DeliveredLinkIsKept
CHECK_DEADLOCK FALSE
