\* A worker of kpd and one of kpmcp on one database and one daemon: the invariants of
\* Lifecycle.cfg, without failing calls. One of two containers is warm; a process
\* exits once.
CONSTANTS
    Ids = {s1, s2}
    NoId = NoId
    Containers = {c1, c2}
    NoCtr = NoCtr
    Workers = {w1, m1}
    Mcp = {m1}
    Reaper = Reaper
    TTLs = {0}
    PoolTarget = 1
    MaxWarm = 1
    ReaperOn = FALSE
    MaxTime = 0
    MaxFaults = 0
    MaxExits = 1
CHECK_DEADLOCK FALSE
SPECIFICATION Spec
SYMMETRY Symmetry
INVARIANTS
    TypeOK
    OneOwner
    ColdSandboxKeepsContainer
    NoSilentLeak
    DeletedNeverRuns
    LogBuffersAreDropped
