CONSTANTS
    NumPhones = 2
    Service = Service
    Restarts = {m1}
    Events = {}
    Clients = {c1}
    NoClient = NoClient
    MaxInits = 2
    MaxDeinits = 1
SPECIFICATION Spec
INVARIANTS UnknownPhoneRefused
CHECK_DEADLOCK FALSE
