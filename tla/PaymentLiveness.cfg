\* From the order to its payment, two requests at a time. Nobody polls here, so
\* an order whose charge lapsed rests for good.
CONSTANTS
    r1 = r1
    r2 = r2
    NoRequest = NoRequest
    Requests <- TwoRequests
    Kinds <- PaymentKinds
SPECIFICATION FairSpec
PROPERTIES
    PaymentIsRecorded
CHECK_DEADLOCK FALSE
