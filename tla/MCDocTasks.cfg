SPECIFICATION Spec
CONSTANTS
    Endpoint <- PlainEndpoint
    Instances = 1
    MaxResets = 1
    None = None
PROPERTIES
    TasksStopped
CHECK_DEADLOCK FALSE
