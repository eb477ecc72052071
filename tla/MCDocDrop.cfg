CONSTANT
    Frames = 1
SPECIFICATION Spec
PROPERTIES
    DropReachesAgent
CHECK_DEADLOCK FALSE
