\* Two requests at a time: the last administrators remove each other.
CONSTANTS
    ana = ana
    bia = bia
    r1 = r1
    r2 = r2
    Operators <- Two
    Founders <- Two
    Requests <- TwoRequests
    MaxTokens = 1
    MaxVersion = 2
SYMMETRY RequestSymmetry
SPECIFICATION AdminSpec
INVARIANTS
    AdministratorRemains
CHECK_DEADLOCK FALSE
