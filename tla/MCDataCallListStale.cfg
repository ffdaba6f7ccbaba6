CONSTANTS
    Requests = {r1, r2}
    Slots = {s1}
    NoEntry = NoEntry
    MaxDeinits = 1
    SerialLifecycle = TRUE
SPECIFICATION ListSpec
INVARIANT NeverStaleEntry
CHECK_DEADLOCK FALSE
