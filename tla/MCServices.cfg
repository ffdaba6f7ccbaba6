CONSTANTS
    Workers = {w1, w2}
    NoOne = noone
    MaxGeneration = 1
    Clients = {c1, c2}
    BareClients = {c1}
    Events = {e1, e2}
    NoClient = noclient
    SlotsHere <- Slots
    Starters = {i1, i2}
    Stoppers = {d1}
    Nobody = nobody
    MaxStages = 4
    WaysHere <- Ways
    Askers = {a1, a2, a3}
    NoAsker = noasker
    Paths = {p, q}
    Versions = {"v"}
    MaxRounds = 2
    MaxTrouble = 1
SPECIFICATION ServicesSpec
INVARIANTS
    ServicesTypeOK
    NothingLeft
    OwnResults
    OwnHandlerContext
    InitTellsTruth
    TokenComesBack
    FilesSurvive
    OpenTellsTruth
PROPERTIES
    ShutdownWakes
    LifeKept
CHECK_DEADLOCK FALSE
