\* Two requests at a time. The bounds on tokens and versions may stop it.
CONSTANTS
    ana = ana
    bia = bia
    r1 = r1
    r2 = r2
    Operators <- Two
    Founders <- Ana
    Requests <- TwoRequests
    MaxTokens = 2
    MaxVersion = 2
SYMMETRY RequestSymmetry
SPECIFICATION AdminSpec
INVARIANTS
    RevokedStaysRefused
CHECK_DEADLOCK FALSE
