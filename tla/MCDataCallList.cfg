CONSTANTS
    Requests = {r1, r2, r3}
    Slots = {s1, s2}
    NoEntry = NoEntry
    MaxDeinits = 1
    SerialLifecycle = FALSE
SPECIFICATION ListFairSpec
INVARIANTS ListTypeOK OneOwner OwnAnswer
PROPERTIES EveryRequestAnswered TokenReturns
CHECK_DEADLOCK FALSE
