\* One reload and a shutdown.
CONSTANTS
    a = a
    b = b
    p1 = p1
    p2 = p2
    p3 = p3
    small = small
    large = large
    NoPool = NoPool
    Images = {a, b}
    Specs = {small, large}
    Policies = {p1, p2, p3}
    PoolSpecFor <- MCPoolSpecFor
    Workers = {w1}
    MaxReloads = 1
    MaxClaims = 0
CHECK_DEADLOCK FALSE
SPECIFICATION Spec
INVARIANT ShutdownDrainsAll
