\* Two requests at a time, every handler in play, every crash.
CONSTANTS
    r1 = r1
    r2 = r2
    NoRequest = NoRequest
    Requests <- TwoRequests
    Kinds <- AllKinds
SYMMETRY Symmetry
SPECIFICATION Spec
INVARIANTS
    AtMostOneCharge
    AtMostOneRefund
    AtMostOnePayout
    NoMoneyOnCancelledOrder
    RefundOrPayout
    ServiceIsPaid
    ReleaseIsReal
    NoConclusionOverDispute
PROPERTIES
    PaymentNeverRegresses
    LifecycleRefined
