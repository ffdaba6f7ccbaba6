CONSTANTS
    NumPhones = 2
    Service = Service
    Restarts = {m1}
    Events = {e1}
    Clients = {c1}
    NoClient = NoClient
    MaxInits = 2
    MaxDeinits = 1
SPECIFICATION Spec
INVARIANTS TypeOK IdFindsPhone DeinitLetsGo
CHECK_DEADLOCK FALSE
