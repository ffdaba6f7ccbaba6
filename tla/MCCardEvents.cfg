CONSTANTS
    CardCalls = {c1, c2}
    NoCall = NoCall
SPECIFICATION CardSpec
INVARIANTS CardTypeOK CallbackIsOwn CalmResponseIsOwn CalmSuccessReturns
PROPERTY CallsReturn
CHECK_DEADLOCK FALSE
