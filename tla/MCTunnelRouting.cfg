SPECIFICATION Spec
CONSTANTS
    c1 = c1
    c2 = c2
    c3 = c3
    h1 = h1
    anyHost = anyHost
    Tunnels = {t1}
    None = None
    Conns <- MCConns
    Hosts <- MCHosts
    Wildcards <- MCWildcards
    Covers <- MCCovers
    HostOf <- MCHostOf
    HealthyWindow = 1
SYMMETRY Symmetry
INVARIANTS
    TunnelTypeOK
    StartedWithLiveAgent
    SoleAgentServed
    NameBeforeWildcard
