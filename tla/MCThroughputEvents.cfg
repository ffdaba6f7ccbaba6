CONSTANTS
    Clients = {c1, c2}
    Events = {e1}
    NoId = NoId
    IdLimit = 4
    MaxAdds = 4
    MaxDeinits = 1
SPECIFICATION Spec
INVARIANTS TypeOK GateServesClients IdsIdentify
SYMMETRY Symmetry
CHECK_DEADLOCK FALSE
