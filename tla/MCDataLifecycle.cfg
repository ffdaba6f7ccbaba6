CONSTANTS
    NumKinds = 2
    NumSlots = 2
    MaxInits = 3
    MaxEvents = 2
SPECIFICATION Spec
INVARIANTS TypeOK FlagIsTrue StateTracksManager CrashNeedsLateEvent
CHECK_DEADLOCK FALSE
