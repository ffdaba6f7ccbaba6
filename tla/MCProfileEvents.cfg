CONSTANTS
    Events = {e1, e2}
    Calls = {c1}
    Nobody = Nobody
    Timeout = 1
    MaxDeinits = 1
    SerialLifecycle = FALSE
    Prompt = FALSE
SPECIFICATION FairSpec
INVARIANTS TypeOK CountIsExact DrainedIsQuiet
PROPERTY WorkersLeave
CHECK_DEADLOCK FALSE
