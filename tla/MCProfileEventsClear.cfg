CONSTANTS
    Events = {e1, e2}
    Calls = {}
    Nobody = Nobody
    Timeout = 1
    MaxDeinits = 1
    SerialLifecycle = TRUE
    Prompt = TRUE
SPECIFICATION Spec
INVARIANT ClearIsSafe
CHECK_DEADLOCK FALSE
