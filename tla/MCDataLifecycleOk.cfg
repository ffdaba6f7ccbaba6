CONSTANTS
    NumKinds = 3
    NumSlots = 1
    MaxInits = 1
    MaxEvents = 0
SPECIFICATION Spec
INVARIANT OkIsComplete
CHECK_DEADLOCK FALSE
