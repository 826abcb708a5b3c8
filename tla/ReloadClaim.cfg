\* No reload at all.
CONSTANTS
    a = a
    b = b
    p1 = p1
    p2 = p2
    p3 = p3
    small = small
    large = large
    NoPool = NoPool
    Images = {a, b}
    Specs = {small, large}
    Policies = {p1, p2, p3}
    PoolSpecFor <- MCPoolSpecFor
    Workers = {w1}
    MaxReloads = 0
    MaxClaims = 1
CHECK_DEADLOCK FALSE
SPECIFICATION Spec
INVARIANT ClaimIsExact
