\* From the confirmation to the transfer, two requests at a time. A settled
\* order rests for good.
CONSTANTS
    r1 = r1
    r2 = r2
    NoRequest = NoRequest
    Requests <- TwoRequests
    Kinds <- PayoutKinds
SPECIFICATION PayoutSpec
PROPERTIES
    SettlementIsDecided
CHECK_DEADLOCK FALSE
