SPECIFICATION Spec
CONSTANTS
    DayLength = 5
    DaysPerWeek = 2
    DefaultSlot = 1
    MinSlot = 1
    MaxSlot = 4
    MaxWindows = 2
    Requests = {r1, r2}
    Editors = {e1}
    Reviewers = {v1}
    Services = {s1, s2}
    EarlierOrders = {o1}
    EarlierSlot <- MCEarlierSlot
    Availabilities <- MCAvailabilities
    Times <- MCTimes
    MaxDecisions = 2
    Keep = Keep
    Nobody = Nobody
INVARIANTS NoDoubleBooking
PROPERTIES CalendarKept
SYMMETRY MCSymmetry
CHECK_DEADLOCK FALSE
