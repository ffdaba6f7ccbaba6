CONSTANTS
    Calls = {c1, c2}
    Other = c2
    Shapes <- PaRequests
SPECIFICATION MCSpec
INVARIANTS TypeOK HeardBeforeReturn FrameOutlivesAnswer CommandsSurvive FailureIsHeard
PROPERTY RequestsReturn
CHECK_DEADLOCK FALSE
