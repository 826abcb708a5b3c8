\* A TTL of half a second.
CONSTANTS
    Ids = {s1}
    NoId = NoId
    Clients = {k1}
    Others = {}
    TTLs = {1}
SPECIFICATION Spec
INVARIANT TTLIsKept
