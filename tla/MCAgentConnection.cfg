CONSTANTS
    Conns = {c1}
    h1 = h1
    Hosts = {h1}
    Wildcards = {}
    None = None
    Covers <- MCCovers
    HostOf <- MCHostOf
    HealthyWindow = 1
    InFlight = 3
    Backlog = 2
SPECIFICATION Spec
INVARIANTS
    TypeOK
    CleanupComplete
    RegisteredHasSender
    HeartbeatKnown
PROPERTIES
    DeadConnectionCleaned
    AgentRegistered
    ImplementsConnectionLife
CHECK_DEADLOCK FALSE
