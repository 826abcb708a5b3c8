\* Two reloads, so that a pool is kept over one and retired by the next; two images,
\* three policies, one Create with a snapshot that may be older than both reloads.
CONSTANTS
    a = a
    b = b
    p1 = p1
    p2 = p2
    p3 = p3
    small = small
    large = large
    NoPool = NoPool
    Images = {a, b}
    Specs = {small, large}
    Policies = {p1, p2, p3}
    PoolSpecFor <- MCPoolSpecFor
    Workers = {w1}
    MaxReloads = 2
    MaxClaims = 1
CHECK_DEADLOCK FALSE
SPECIFICATION Spec
INVARIANTS
    PoolsMatchPolicy
    ClaimHasPolicyLimits
    PoolsAccountedFor
    ShutdownLeavesOnly
PROPERTY RetiredIsClosed
