SPECIFICATION Spec
CONSTANTS
    Interval = 3
    Window = 12
    MaxBusy = 6
    MaxDelay = 2
    MaxStep = 4
    Horizon = 16
INVARIANTS
    HeartbeatsTypeOK
    ServingAgentHealthy
    VanishedAgentDropped
