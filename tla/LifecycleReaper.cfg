\* The reaper of kpd and a worker of kpmcp on one database. The expiry falls on a
\* whole second or between two; the clock gets past it. One call fails, and the
\* processes exit twice. No symmetry: liveness is checked.
CONSTANTS
    Ids = {s1}
    NoId = NoId
    Containers = {c1}
    NoCtr = NoCtr
    Workers = {m1}
    Mcp = {m1}
    Reaper = Reaper
    TTLs = {0, 1}
    PoolTarget = 1
    MaxWarm = 0
    ReaperOn = TRUE
    MaxTime = 4
    MaxFaults = 1
    MaxExits = 2
CHECK_DEADLOCK FALSE
SPECIFICATION Spec
INVARIANT SweptWasDeleted
PROPERTIES
    ReaperIsNeverEarly
    ExpiredIsReaped
