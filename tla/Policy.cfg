\* Entries not set, set, and set to a negative amount; KP_REQUIRE_POLICY is set.
CONSTANTS
    Fields = {cpus, ttl}
    TTL = ttl
    NoName = NoName
    Nil = Nil
    Absent = Absent
    Malformed = Malformed
    Denied = Denied
    a = a
    b = b
    gpu = gpu
    h1 = h1
    h2 = h2
    Negative = TRUE
    Names = {a, b}
    Hosts = {h1, h2}
    Amounts <- MCAmounts
    Files <- MCFiles
    Edits <- MCEdits
    MaxEdits = 1
    Required = TRUE
    Default <- MCDefault
    Requests <- MCRequests
    one = one
    two = two
    metadata = metadata
    lower = lower
    upper = upper
    other = other
    meta = meta
    portless = portless
    Sites = {one, two, metadata}
    Targets = {lower, upper, other, meta, portless}
    SiteOf <- MCSiteOf
    Reads <- MCReads
    DenyHosts = {metadata}
CHECK_DEADLOCK FALSE
SPECIFICATION EgressSpec
INVARIANTS
    PolicyInForce
    ResolvedByPrecedence
    EgressIsResolved
    ProfilesResolve
    LimitsAsResolved
