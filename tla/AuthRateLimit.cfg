CONSTANTS
    Callers = {k1, k2}
    WINDOW_MS = 2
    MAX_ATTEMPTS = 2
    MaxClock = 5
    MaxCount = 4
SPECIFICATION GuardSpec
SYMMETRY Symmetry
INVARIANTS
    GuardTypeOK
    SlidingBound
