\* Two requests about one user's addresses. All may be done.
SPECIFICATION AddressSpec
CONSTANTS
    Callers = {c1, c2}
    Rows = {a1, a2, a3}
INVARIANTS
    SingleDefault
CHECK_DEADLOCK FALSE
