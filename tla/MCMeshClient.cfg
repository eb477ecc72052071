SPECIFICATION Spec
CONSTANTS
    Endpoint <- PlainEndpoint
    Instances = 2
    MaxResets = 1
    None = None
INVARIANTS
    MeshTypeOK
    ChannelsLast
PROPERTIES
    HeartbeatTaskEnds
    MonitorSeesRoll
    DrainedInstanceLeft
    MonitorLearnsInstance
    ServesAgain
CHECK_DEADLOCK FALSE
