SPECIFICATION Spec
CONSTANTS
    DayLength = 5
    DaysPerWeek = 2
    DefaultSlot = 1
    MinSlot = 1
    MaxSlot = 4
    MaxWindows = 2
    Requests = {r1}
    Editors = {e1, e2}
    Reviewers = {v1}
    Services = {s1, s2}
    EarlierOrders = {}
    EarlierSlot <- MCEarlierSlot
    Availabilities <- MCUnchecked
    Times <- MCTimes
    MaxDecisions = 2
    Keep = Keep
    Nobody = Nobody
INVARIANTS OffersAreValid
CHECK_DEADLOCK FALSE
