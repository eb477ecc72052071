SPECIFICATION Spec
CONSTANTS
    Endpoint <- PathEndpoint
    Instances = 1
    MaxResets = 0
    None = None
PROPERTIES
    MonitorLearnsInstance
CHECK_DEADLOCK FALSE
