CONSTANTS
    Conns = {c1, c2}
    Requests = {r1, r2}
    h1 = h1
    None = None
    Hosts <- MCHosts
    Wildcards <- MCWildcards
    Covers <- MCCovers
    HostOf <- MCHostOf
    HealthyWindow = 1
    RequestTimeout = 1
    CacheTtl = 1
SYMMETRY Symmetry
SPECIFICATION SafeSpec
INVARIANTS
    TypeOK
    PendingOwned
    ReplyNotLost
    RejectedNeverForwarded
