CONSTANT
    Frames = 2
SPECIFICATION Spec
INVARIANTS
    TypeOK
    FramesInOrder
    CloseComesLast
    NoOrphanSession
PROPERTIES
    ClosingEndsTunnel
CHECK_DEADLOCK FALSE
