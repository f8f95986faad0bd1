\* Two requests at a time: an invitation is reissued while it is activated.
CONSTANTS
    ana = ana
    bia = bia
    r1 = r1
    r2 = r2
    Operators <- Two
    Founders <- Ana
    Requests <- TwoRequests
    MaxTokens = 2
    MaxVersion = 2
SYMMETRY RequestSymmetry
SPECIFICATION AdminSpec
PROPERTIES
    RoleChangeBumpsVersion
CHECK_DEADLOCK FALSE
