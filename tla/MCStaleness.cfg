CONSTANTS
    c1 = c1
    h1 = h1
    anyHost = anyHost
    Requests = {r1, r2}
    None = None
    Conns <- MCConns
    Hosts <- MCHosts
    Wildcards <- MCWildcards
    Covers <- MCCovers
    HostOf <- MCHostOf
    HealthyWindow = 1
    RequestTimeout = 1
    CacheTtl = 2
SPECIFICATION StaleSpec
INVARIANTS
    ListAgreesAfterTtl
PROPERTIES
    NoForwardLongAfterLeaving
